---------------------------- MODULE Spec2Model ----------------------------
(***************************************************************************)
(* A model of the road-network routing core: the RoadGraph cost model     *)
(* (src/src/graph.py), the heuristics (src/src/heuristics.py), the A* and *)
(* Dijkstra searches (src/src/astar.py) and the MapLoader with its edge   *)
(* densification and path metrics (src/src/map_loader.py).                *)
(*                                                                         *)
(* Numbers.  Python floats are modelled as exact rationals [n, d] in      *)
(* lowest terms with d > 0; float("inf") is [n |-> 1, d |-> 0] and        *)
(* Python's None is [n |-> 0, d |-> 0].  Rounding is not modelled.        *)
(*                                                                         *)
(* Attribute values.  A value stored under an edge attribute is a record  *)
(* [c, t, v, u, w]: c is the container ("scalar", "list" whose first      *)
(* element is described by the other fields, or "emptylist"), t the type  *)
(* ("none" for an absent attribute or None, "num" for the int or float    *)
(* v / w, "str" for                                                       *)
(* the text of the number v followed by the unit text u, "semi" for such  *)
(* a text followed by ";" and more, "junk" for a non-numeric text,        *)
(* "empty" for the empty string, "inf" for the text "inf").               *)
(***************************************************************************)
EXTENDS Integers, Sequences, FiniteSets, TLC

VARIABLES
    graph,        \* the nx.MultiDiGraph wrapped by RoadGraph: nodes and keyed edges
    weight_attr,  \* RoadGraph.weight_attr
    max_speed,    \* RoadGraph._max_speed_m_s, cached by __init__
    heuristic,    \* AStar.heuristic
    nb_call,      \* the last get_neighbors call: its argument and its return value
    ew_call,      \* the last get_edge_weight call: its arguments and its return value
    start,        \* find_path's start
    goal,         \* find_path's goal
    open_set,     \* AStar.find_path: the heap, as the list heapq keeps
    came_from,    \* AStar.find_path: dict node -> predecessor
    g_score,      \* AStar.find_path: dict node -> best known cost
    f_score,      \* AStar.find_path: dict node -> g + h
    a_pc,         \* AStar.find_path: "idle", "run" (in the while loop), "done", "raised"
    a_ret,        \* AStar.find_path: the returned (path, cost)
    a_last,       \* AStar.find_path: the entry the last loop iteration popped, what it did
    distance,     \* Dijkstra.find_path: dict node -> tentative distance
    previous,     \* Dijkstra.find_path: dict node -> predecessor
    unvisited,    \* Dijkstra.find_path: the unvisited set
    d_pc,         \* Dijkstra.find_path: "idle", "run", "done"
    d_ret,        \* Dijkstra.find_path: the returned (path, cost)
    d_last,       \* Dijkstra.find_path: the nodes selected so far, in order
    first_run,    \* the costs both searches returned for the reverse query made before
    ld_heap,      \* the nx.MultiDiGraph objects MapLoader has held, by identity
    ld_graph,     \* MapLoader.graph: the index of an object of ld_heap, 0 for None
    ld_max_speed, \* MapLoader._max_speed_m_s
    ld_call       \* the last call made on MapLoader or a heuristic constructor

vars == <<graph, weight_attr, max_speed, heuristic, nb_call, ew_call,
          start, goal, open_set, came_from, g_score, f_score, a_pc, a_ret,
          a_last, distance, previous, unvisited, d_pc, d_ret, d_last,
          first_run, ld_heap, ld_graph, ld_max_speed, ld_call>>

loaderVars == <<ld_heap, ld_graph, ld_max_speed, ld_call>>
graphVars == <<graph, weight_attr, max_speed, heuristic>>
probeVars == <<nb_call, ew_call>>
astarVars == <<open_set, came_from, g_score, f_score, a_pc, a_ret, a_last>>
dijkstraVars == <<distance, previous, unvisited, d_pc, d_ret, d_last>>

-----------------------------------------------------------------------------
(* Bounds of the model *)

\* edge lengths of the search graphs are 0 .. MaxCost metres
MaxCost == 1
\* a custom heuristic estimates 0 .. MaxH
MaxH == 1
\* the cost-model graphs carry up to MaxParallel parallel edges from node 1 to node 2
MaxParallel == 2

\* the node identifiers of the modelled graphs
Nodes == {1, 2, 3}

-----------------------------------------------------------------------------
(* Float arithmetic *)

Abs(x) == IF x < 0 THEN -x ELSE x

RECURSIVE GCD(_, _)
GCD(a, b) == IF b = 0 THEN a ELSE GCD(b, a % b)

None == [n |-> 0, d |-> 0]
Inf == [n |-> 1, d |-> 0]

IsNone(x) == x.n = 0 /\ x.d = 0
IsInf(x) == x.n = 1 /\ x.d = 0

\* the float n / d in lowest terms, d # 0
Rat(n, d) ==
    LET Reduce(g, s) == [n |-> (s * n) \div g, d |-> (s * d) \div g]
    IN  Reduce(GCD(Abs(n), Abs(d)), IF d < 0 THEN -1 ELSE 1)

Num(n) == [n |-> n, d |-> 1]

\* a < b on floats (neither is None)
RatLess(a, b) ==
    LET Cross(g) == a.n * (b.d \div g) < b.n * (a.d \div g)
    IN  IF a.d = 0 THEN FALSE
        ELSE IF b.d = 0 THEN TRUE
        ELSE IF a.d = b.d THEN a.n < b.n
        ELSE Cross(GCD(a.d, b.d))

RatLeq(a, b) == a = b \/ RatLess(a, b)

\* a + b on floats
RatAdd(a, b) ==
    LET Sum(g) == Rat(a.n * (b.d \div g) + b.n * (a.d \div g), (a.d \div g) * b.d)
    IN  IF a.d = 0 \/ b.d = 0 THEN Inf
        ELSE IF a.d = 1 /\ b.d = 1 THEN Num(a.n + b.n)
        ELSE Sum(GCD(a.d, b.d))

\* a * b on finite floats
RatMul(a, b) ==
    LET Product(g1, g2) == Rat((a.n \div g1) * (b.n \div g2), (a.d \div g2) * (b.d \div g1))
    IN  Product(GCD(Abs(a.n), b.d), GCD(Abs(b.n), a.d))

\* a / b on floats, b finite and b # 0 (inf is only ever divided by a positive b)
RatDiv(a, b) ==
    IF IsInf(a) THEN Inf
    ELSE RatMul(a, IF b.n < 0 THEN [n |-> -b.d, d |-> -b.n] ELSE [n |-> b.d, d |-> b.n])

-----------------------------------------------------------------------------
(* Attribute values *)

AbsentV == [c |-> "scalar", t |-> "none", v |-> 0, u |-> "", w |-> 1]
NumV(n) == [c |-> "scalar", t |-> "num", v |-> n, u |-> "", w |-> 1]
StrV(n, unit) == [c |-> "scalar", t |-> "str", v |-> n, u |-> unit, w |-> 1]
SemiV(n, unit) == [c |-> "scalar", t |-> "semi", v |-> n, u |-> unit, w |-> 1]
JunkV == [c |-> "scalar", t |-> "junk", v |-> 0, u |-> "", w |-> 1]
EmptyStrV == [c |-> "scalar", t |-> "empty", v |-> 0, u |-> "", w |-> 1]
\* the string "inf", which float() parses
InfStrV == [c |-> "scalar", t |-> "inf", v |-> 0, u |-> "", w |-> 1]
\* the float n / d, for r = [n, d] in lowest terms
FloatV(r) == [c |-> "scalar", t |-> "num", v |-> r.n, u |-> "", w |-> r.d]
ListV(first) == [first EXCEPT !.c = "list"]
EmptyListV == [c |-> "emptylist", t |-> "none", v |-> 0, u |-> "", w |-> 1]

\* isinstance(value, str)
IsStr(x) == x.c = "scalar" /\ x.t \in {"str", "semi", "junk", "empty", "inf"}

\* value is None (or the attribute is absent: data.get gives None)
IsNoneV(x) == x.c = "scalar" /\ x.t = "none"

\* Python's truth value of an attribute value, as `a or b` tests it
Truthy(x) ==
    CASE x.c = "list" -> TRUE
      [] x.c = "emptylist" -> FALSE
      [] x.t = "none" -> FALSE
      [] x.t = "num" -> x.v # 0
      [] x.t = "empty" -> FALSE
      [] OTHER -> TRUE

\* RoadGraph._coerce_float
_coerce_float(value) ==
    IF value.c # "scalar" THEN None
    ELSE IF value.t = "none" THEN None
    ELSE IF value.t = "num" THEN [n |-> value.v, d |-> value.w]
    ELSE IF value.t = "str" /\ value.u = "" THEN Num(value.v)
    ELSE IF value.t = "inf" THEN Inf
    ELSE None

-----------------------------------------------------------------------------
(* RoadGraph: the cost model.  An edge is [u, v, key, data]; data holds the *)
(* attributes length, travel_time, speed_kph and maxspeed.                  *)

DEFAULT_MAX_SPEED_KPH == 130

\* data.get(name)
Attr(data, name) ==
    CASE name = "travel_time" -> data.travel_time
      [] name = "length" -> data.length
      [] name = "speed_kph" -> data.speed_kph
      [] name = "maxspeed" -> data.maxspeed

\* RoadGraph._edge_speed_kph
_edge_speed_kph(data) ==
    LET \* data.get("speed_kph") or data.get("maxspeed")
        Or(a, b) == IF Truthy(a) THEN a ELSE b
        \* a non-empty list or tuple: its first element
        First(s) == IF s.c = "list" THEN [s EXCEPT !.c = "scalar"] ELSE s
        \* speed.split(";")[0]
        Split(s) == IF s.t = "semi" THEN [s EXCEPT !.t = "str"] ELSE s
        \* .replace("km/h", "").replace("kph", "").strip()
        Strip(s) == IF s.t = "str" /\ s.u \in {"km/h", "kph"} THEN [s EXCEPT !.u = ""] ELSE s
        \* value * 1.60934 if value is not None else None
        Mph(value) == IF IsNone(value) THEN None ELSE RatMul(value, Rat(160934, 100000))
        \* "mph" in speed.lower()
        Text(s) == IF s.t = "str" /\ s.u \in {"mph", "MPH"}
                   THEN Mph(_coerce_float([s EXCEPT !.u = ""]))
                   ELSE _coerce_float(s)
        Parse(s) == IF IsStr(s) THEN Text(Strip(Split(s))) ELSE _coerce_float(s)
    IN  Parse(First(Or(Attr(data, "speed_kph"), Attr(data, "maxspeed"))))

\* RoadGraph._edge_speed_m_s
_edge_speed_m_s(data) ==
    LET Ms(speed_kph) == IF IsNone(speed_kph) THEN None ELSE RatDiv(speed_kph, Rat(36, 10))
    IN  Ms(_edge_speed_kph(data))

\* RoadGraph._compute_max_speed: the largest positive declared speed, else the default
_compute_max_speed(g) ==
    LET Max(pos) == IF pos = {} THEN Num(DEFAULT_MAX_SPEED_KPH)
                    ELSE CHOOSE m \in pos : \A o \in pos : RatLeq(o, m)
        Positive(speeds) == {s \in speeds : ~IsNone(s) /\ RatLess(Num(0), s)}
    IN  RatDiv(Max(Positive({_edge_speed_kph(e.data) : e \in g.edges})), Rat(36, 10))

\* RoadGraph._fallback_weight
_fallback_weight(data, wattr, maxms) ==
    LET \* self._edge_speed_m_s(data) or self._max_speed_m_s: None and 0.0 are falsy
        Or(es) == IF ~IsNone(es) /\ es.n # 0 THEN es ELSE maxms
        Time(length, speed) == IF RatLeq(speed, Num(0)) THEN None ELSE RatDiv(length, speed)
        Weight(length) ==
            IF IsNone(length) THEN None
            ELSE IF wattr = "travel_time" THEN Time(length, Or(_edge_speed_m_s(data)))
            ELSE length
    IN  Weight(_coerce_float(Attr(data, "length")))

\* RoadGraph._edge_cost, lines 71-75: the weight one edge contributes (None: skipped)
EdgeWeight(data, wattr, maxms) ==
    LET Coerced(raw) == IF IsNoneV(raw) THEN None ELSE _coerce_float(raw)
        OrFallback(weight) ==
            IF IsNone(weight) THEN _fallback_weight(data, wattr, maxms) ELSE weight
    IN  OrFallback(Coerced(Attr(data, wattr)))

\* a faulty variant of lines 76-79, without the comparison: the last weight wins
BestCostLast(best_cost, weight) == IF IsNone(weight) THEN best_cost ELSE weight

\* RoadGraph._edge_cost, lines 76-79: best_cost after an edge of this weight
BestCost(best_cost, weight) ==
    IF IsNone(weight) THEN best_cost
    ELSE IF IsNone(best_cost) \/ RatLess(weight, best_cost) THEN weight
    ELSE best_cost

\* RoadGraph._edge_cost: the loop over the bundle, best_cost carried along
RECURSIVE EdgeCostLoop(_, _, _, _)
EdgeCostLoop(edges, best_cost, wattr, maxms) ==
    IF edges = <<>> THEN best_cost
    ELSE EdgeCostLoop(Tail(edges),
                      BestCost(best_cost, EdgeWeight(Head(edges), wattr, maxms)),
                      wattr, maxms)

_edge_cost(edges, wattr, maxms) == EdgeCostLoop(edges, None, wattr, maxms)

\* the elements of a set of integers in ascending order
RECURSIVE SortedSeq(_)
SortedSeq(S) ==
    LET Put(m) == <<m>> \o SortedSeq(S \ {m})
    IN  IF S = {} THEN <<>> ELSE Put(CHOOSE x \in S : \A y \in S : x <= y)

\* graph.succ[node][neighbor].values(): the bundle's attribute dicts, by key
Bundle(g, u, v) ==
    LET ByKey(es, keys) == [i \in 1..Len(keys) |-> (CHOOSE e \in es : e.key = keys[i]).data]
        Of(es) == ByKey(es, SortedSeq({e.key : e \in es}))
    IN  Of({e \in g.edges : e.u = u /\ e.v = v})

\* RoadGraph._iter_outgoing_edges: the successors of node (none for an unknown
\* node), in the order of graph.succ[node]: the order the graph records in
\* succ where it was built edge by edge, else that of the node ids
_iter_outgoing_edges(g, node) ==
    IF "succ" \in DOMAIN g THEN g.succ[node]
    ELSE SortedSeq({e.v : e \in {x \in g.edges : x.u = node}})

\* a faulty variant of lines 26-29, break in place of continue: a successor
\* without a cost ends the listing
NeighborItemBreak(neighbor, cost, rest) ==
    IF IsNone(cost) THEN <<>> ELSE <<[node |-> neighbor, cost |-> cost]>> \o rest

\* RoadGraph.get_neighbors, lines 26-29: the list after one successor
NeighborItem(neighbor, cost, rest) ==
    IF IsNone(cost) THEN rest ELSE <<[node |-> neighbor, cost |-> cost]>> \o rest

\* RoadGraph.get_neighbors: the loop over the successors
RECURSIVE GetNeighborsLoop(_, _, _, _, _)
GetNeighborsLoop(g, node, succs, wattr, maxms) ==
    IF succs = <<>> THEN <<>>
    ELSE NeighborItem(Head(succs),
                      _edge_cost(Bundle(g, node, Head(succs)), wattr, maxms),
                      GetNeighborsLoop(g, node, Tail(succs), wattr, maxms))

get_neighbors(g, node, wattr, maxms) ==
    GetNeighborsLoop(g, node, _iter_outgoing_edges(g, node), wattr, maxms)

\* a faulty variant of line 43, without the float("inf") default
get_edge_weight_or_none(g, node1, node2, wattr, maxms) ==
    _edge_cost(Bundle(g, node1, node2), wattr, maxms)

\* RoadGraph.get_edge_weight
get_edge_weight(g, node1, node2, wattr, maxms) ==
    LET OrInf(cost) == IF IsNone(cost) THEN Inf ELSE cost
    IN  OrInf(_edge_cost(Bundle(g, node1, node2), wattr, maxms))

\* RoadGraph.get_node_coordinates: the node's latitude; every modelled node lies
\* on one meridian
get_node_coordinates(g, node) == g.nodes[node]

\* RoadGraph.get_all_nodes
get_all_nodes(g) == DOMAIN g.nodes

-----------------------------------------------------------------------------
(* Heuristics.  A heuristic is [kind, speed, table]: "zero", "euclidean",  *)
(* "travel_time" (with its max_speed_m_s) or "custom", a Heuristic        *)
(* subclass given by the table of its estimates per coordinate.            *)

\* haversine_distance for two points of one meridian: the arc between the
\* latitudes; one unit of model latitude spans 100 m
haversine_distance(lat1, lat2) == Num(100 * Abs(lat2 - lat1))

ZeroHeuristic == [kind |-> "zero", speed |-> None, table |-> <<>>]
EuclideanHeuristic == [kind |-> "euclidean", speed |-> None, table |-> <<>>]
TravelTimeHeuristic(maxms) == [kind |-> "travel_time", speed |-> maxms, table |-> <<>>]
CustomHeuristic(t) == [kind |-> "custom", speed |-> None, table |-> t]

\* Heuristic.calculate(node1, node2) of each subclass
calculate(h, c1, c2) ==
    CASE h.kind = "zero" -> Num(0)
      [] h.kind = "euclidean" -> haversine_distance(c1, c2)
      [] h.kind = "travel_time" -> RatDiv(haversine_distance(c1, c2), h.speed)
      [] h.kind = "custom" -> Num(h.table[c1])

\* RoadGraph.default_heuristic
default_heuristic(wattr, maxms) ==
    IF wattr = "travel_time" THEN TravelTimeHeuristic(maxms) ELSE EuclideanHeuristic

\* AStar._heuristic_cost
_heuristic_cost(g, h, node1, node2) ==
    calculate(h, get_node_coordinates(g, node1), get_node_coordinates(g, node2))

-----------------------------------------------------------------------------
(* The graphs of the cost-model specification: nodes 1, 2, 3 lie 100 m     *)
(* apart on one meridian; node 1 has a bundle of parallel edges to node 2  *)
(* and possibly an edge to node 3.                                         *)

EdgeData(l, t, s, m) == [length |-> l, travel_time |-> t, speed_kph |-> s, maxspeed |-> m]

LengthVals == {AbsentV, NumV(-100), NumV(0), NumV(100), StrV(200, ""), JunkV, InfStrV}

TravelTimeVals == {AbsentV, NumV(1), NumV(-1), StrV(9, ""), JunkV}

MaxspeedVals ==
    {AbsentV, NumV(-30), StrV(50, ""), StrV(50, "km/h"), StrV(50, "kph"),
     StrV(50, "KPH"), StrV(30, "mph"), StrV(30, "MPH"), SemiV(50, ""),
     ListV(StrV(50, "")), ListV(NumV(40)), EmptyListV, StrV(0, ""),
     StrV(-20, ""), JunkV, EmptyStrV}

\* (speed_kph, maxspeed) pairs: maxspeed is read when speed_kph is falsy
SpeedVals ==
    {<<AbsentV, m>> : m \in MaxspeedVals}
    \cup {<<NumV(0), m>> : m \in {AbsentV, StrV(50, "")}}
    \cup {<<EmptyStrV, StrV(30, "mph")>>, <<NumV(30), AbsentV>>,
          <<NumV(30), StrV(50, "")>>, <<NumV(-30), StrV(50, "")>>,
          <<JunkV, StrV(50, "")>>}

RichData ==
    {EdgeData(l, t, sp[1], sp[2]) : l \in LengthVals, t \in TravelTimeVals, sp \in SpeedVals}

ParallelData ==
    {EdgeData(NumV(100), AbsentV, AbsentV, StrV(50, "")),
     EdgeData(NumV(0), NumV(1), AbsentV, AbsentV),
     EdgeData(JunkV, JunkV, NumV(30), AbsentV)}

OtherData == {EdgeData(NumV(200), NumV(9), NumV(90), AbsentV)}

Edge(u, v, key, data) == [u |-> u, v |-> v, key |-> key, data |-> data]

\* the sequences of up to k further parallel edges
RECURSIVE ParallelTails(_)
ParallelTails(k) ==
    LET Longer(shorter) ==
            shorter \cup {Append(t, d) : t \in {x \in shorter : Len(x) = k - 1},
                                         d \in ParallelData}
    IN  IF k = 0 THEN {<<>>} ELSE Longer(ParallelTails(k - 1))

\* the bundle from node 1 to node 2 is a first edge with any data and up to
\* MaxParallel - 1 further parallel edges
CostGraphs ==
    {[nodes |-> [n \in Nodes |-> n - 1],
      edges |-> {Edge(1, 2, 0, d1)}
                \cup {Edge(1, 2, i, tl[i]) : i \in 1..Len(tl)}
                \cup other] :
        d1 \in RichData,
        tl \in ParallelTails(MaxParallel - 1),
        other \in {{}} \cup {{Edge(1, 3, 0, d)} : d \in OtherData}}

NoCall == [node |-> 0, ret |-> <<>>]
NoWeight == [u |-> 0, v |-> 0, ret |-> None]
NoResult == [path |-> <<>>, cost |-> None]
NoPop == [kind |-> "none", node |-> 0, f |-> None, pushed |-> 0]
NoRun == [a |-> None, d |-> None]
NoLoaderCall ==
    [op |-> "none", arg |-> None, raised |-> "", ret |-> <<>>,
     pre_graph |-> 0, pre_heap |-> <<>>]

SearchIdle ==
    /\ start = 0
    /\ goal = 0
    /\ open_set = <<>>
    /\ came_from = <<>>
    /\ g_score = <<>>
    /\ f_score = <<>>
    /\ a_pc = "idle"
    /\ a_ret = NoResult
    /\ a_last = NoPop
    /\ distance = <<>>
    /\ previous = <<>>
    /\ unvisited = {}
    /\ d_pc = "idle"
    /\ d_ret = NoResult
    /\ d_last = <<>>
    /\ first_run = NoRun

\* MapLoader.__init__
LoaderIdle ==
    /\ ld_heap = <<>>
    /\ ld_graph = 0
    /\ ld_max_speed = RatDiv(Num(DEFAULT_MAX_SPEED_KPH), Rat(36, 10))
    /\ ld_call = NoLoaderCall

\* RoadGraph.__init__ on a graph, and the heuristic default_heuristic() gives
CostInit ==
    /\ graph \in CostGraphs
    /\ weight_attr \in {"travel_time", "length"}
    /\ max_speed = _compute_max_speed(graph)
    /\ heuristic = default_heuristic(weight_attr, max_speed)
    /\ nb_call = NoCall
    /\ ew_call = NoWeight
    /\ SearchIdle
    /\ LoaderIdle

\* a call of RoadGraph.get_neighbors(node)
GetNeighborsCall(node) ==
    /\ a_pc = "idle"
    /\ nb_call' = [node |-> node, ret |-> get_neighbors(graph, node, weight_attr, max_speed)]
    /\ ew_call' = NoWeight
    /\ UNCHANGED <<loaderVars, first_run, graphVars, start, goal, astarVars, dijkstraVars>>

\* a call of RoadGraph.get_edge_weight(node1, node2); the calls are made for
\* the node whose neighbours were listed last
GetEdgeWeightCall(node1, node2) ==
    /\ a_pc = "idle"
    /\ nb_call # NoCall
    /\ node1 = nb_call.node
    /\ ew_call' = [u |-> node1, v |-> node2,
                   ret |-> get_edge_weight(graph, node1, node2, weight_attr, max_speed)]
    /\ UNCHANGED <<loaderVars, first_run, graphVars, nb_call, start, goal, astarVars, dijkstraVars>>

CostNext ==
    \/ \E node \in get_all_nodes(graph) : GetNeighborsCall(node)
    \/ \E node1, node2 \in get_all_nodes(graph) : GetEdgeWeightCall(node1, node2)

CostSpec == CostInit /\ [][CostNext]_vars

-----------------------------------------------------------------------------
(* AStar.find_path.  The heap open_set is the list heapq keeps: its least  *)
(* entry, in the tuple order of (f, node), is the first.                   *)

\* a faulty variant of the heap order: the first component is ignored
EntryLessByNode(a, b) == a.node < b.node

\* a node id is an int of the map, or the str "virtual_<i>" densify_edges
\* makes, which the model writes -(i + 1)
IsVirtual(n) == n < 0

\* n1 < n2 on two ints, or on two strs "virtual_<i>" with i < 10
NodeLess(n1, n2) == IF IsVirtual(n1) THEN n2 < n1 ELSE n1 < n2

\* the tuple comparison (f1, node1) < (f2, node2) raises TypeError: the costs
\* are equal and the node ids are an int and a str
EntryRaises(a, b) == a.f = b.f /\ IsVirtual(a.node) # IsVirtual(b.node)

\* a faulty variant of the heap order: the greatest tuple first
EntryGreater(a, b) == RatLess(b.f, a.f) \/ (a.f = b.f /\ NodeLess(b.node, a.node))

\* the tuple comparison (f1, node1) < (f2, node2) heapq makes
EntryLess(a, b) == RatLess(a.f, b.f) \/ (a.f = b.f /\ NodeLess(a.node, b.node))

\* heapq._siftdown(heap, 0, pos) with newitem taken from heap[pos]; positions
\* count from 0; the result holds the heap and whether a comparison raised
RECURSIVE _siftdown(_, _, _)
_siftdown(heap, newitem, pos) ==
    LET Placed == [heap |-> [heap EXCEPT ![pos + 1] = newitem], raised |-> FALSE]
        Against(parentpos) ==
            IF EntryRaises(newitem, heap[parentpos + 1])
            THEN [heap |-> heap, raised |-> TRUE]
            ELSE IF EntryLess(newitem, heap[parentpos + 1])
            THEN _siftdown([heap EXCEPT ![pos + 1] = heap[parentpos + 1]], newitem, parentpos)
            ELSE Placed
    IN  IF pos > 0 THEN Against((pos - 1) \div 2) ELSE Placed

\* heapq._siftup(heap, 0), the loop: the smaller child is moved up until a
\* leaf is reached, then newitem is sifted down from there
RECURSIVE _siftup(_, _, _)
_siftup(heap, newitem, pos) ==
    LET childpos == 2 * pos + 1
        rightpos == 2 * pos + 2
        Up(child) == _siftup([heap EXCEPT ![pos + 1] = heap[child + 1]], newitem, child)
    IN  IF childpos >= Len(heap) THEN _siftdown(heap, newitem, pos)
        ELSE IF rightpos >= Len(heap) THEN Up(childpos)
        ELSE IF EntryRaises(heap[childpos + 1], heap[rightpos + 1])
        THEN [heap |-> heap, raised |-> TRUE]
        ELSE IF EntryLess(heap[childpos + 1], heap[rightpos + 1]) THEN Up(childpos)
        ELSE Up(rightpos)

\* heapq.heappush with what it raises
PushResult(heap, entry) == _siftdown(Append(heap, entry), entry, Len(heap))

\* heapq.heappush, where it does not raise
heappush(heap, entry) == PushResult(heap, entry).heap

\* heapq.heappop: the heap left behind (the item returned is heap[0]) and
\* whether a comparison raised
heappop(heap) ==
    IF Len(heap) <= 1 THEN [heap |-> <<>>, raised |-> FALSE]
    ELSE _siftup(<<heap[Len(heap)]>> \o SubSeq(heap, 2, Len(heap) - 1), heap[Len(heap)], 0)

Reverse(seq) == [i \in 1..Len(seq) |-> seq[Len(seq) + 1 - i]]

\* AStar._reconstruct_path, lines 66-69; a predecessor of None is 0
RECURSIVE AStarBack(_, _)
AStarBack(cf, current) ==
    IF current \in DOMAIN cf /\ cf[current] # 0
    THEN <<current>> \o AStarBack(cf, cf[current])
    ELSE <<current>>

\* AStar._reconstruct_path
AStar_reconstruct_path(cf, current) == Reverse(AStarBack(cf, current))

\* d[k] = v on a dict
DictSet(d, k, v) == [x \in DOMAIN d \cup {k} |-> IF x = k THEN v ELSE d[x]]

\* a faulty variant of lines 41-48, without the test tentative_g < g_score[neighbor]
RelaxUnseenOnly(st, current, neighbor, weight) ==
    IF st.raised \/ neighbor \in DOMAIN st.g_score THEN st
    ELSE [raised |-> PushResult(st.open_set,
                                [f |-> RatAdd(RatAdd(st.g_score[current], weight),
                                              _heuristic_cost(graph, heuristic, neighbor, goal)),
                                 node |-> neighbor]).raised,
          came_from |-> DictSet(st.came_from, neighbor, current),
          g_score |-> DictSet(st.g_score, neighbor, RatAdd(st.g_score[current], weight)),
          f_score |-> st.f_score,
          open_set |-> heappush(st.open_set,
                                [f |-> RatAdd(RatAdd(st.g_score[current], weight),
                                              _heuristic_cost(graph, heuristic, neighbor, goal)),
                                 node |-> neighbor]),
          pushed |-> st.pushed + 1]

\* a faulty variant of lines 41-48, with tentative_g <= g_score[neighbor]
RelaxOrEqual(st, current, neighbor, weight) ==
    LET Record(tentative_g, f) ==
            [raised |-> PushResult(st.open_set, [f |-> f, node |-> neighbor]).raised,
             came_from |-> DictSet(st.came_from, neighbor, current),
             g_score |-> DictSet(st.g_score, neighbor, tentative_g),
             f_score |-> DictSet(st.f_score, neighbor, f),
             open_set |-> heappush(st.open_set, [f |-> f, node |-> neighbor]),
             pushed |-> st.pushed + 1]
        Try(tentative_g) ==
            IF neighbor \notin DOMAIN st.g_score \/ RatLeq(tentative_g, st.g_score[neighbor])
            THEN Record(tentative_g,
                        RatAdd(tentative_g, _heuristic_cost(graph, heuristic, neighbor, goal)))
            ELSE st
    IN  IF st.raised THEN st ELSE Try(RatAdd(st.g_score[current], weight))

\* a faulty variant of lines 41-48: line 44 is run for a new node only, and a
\* better g leaves the predecessor as it was
RelaxKeepPredecessor(st, current, neighbor, weight) ==
    LET Record(tentative_g, f) ==
            [raised |-> PushResult(st.open_set, [f |-> f, node |-> neighbor]).raised,
             came_from |-> IF neighbor \in DOMAIN st.came_from THEN st.came_from
                           ELSE DictSet(st.came_from, neighbor, current),
             g_score |-> DictSet(st.g_score, neighbor, tentative_g),
             f_score |-> DictSet(st.f_score, neighbor, f),
             open_set |-> heappush(st.open_set, [f |-> f, node |-> neighbor]),
             pushed |-> st.pushed + 1]
        Try(tentative_g) ==
            IF neighbor \notin DOMAIN st.g_score \/ RatLess(tentative_g, st.g_score[neighbor])
            THEN Record(tentative_g,
                        RatAdd(tentative_g, _heuristic_cost(graph, heuristic, neighbor, goal)))
            ELSE st
    IN  IF st.raised THEN st ELSE Try(RatAdd(st.g_score[current], weight))

\* lines 41-48: one neighbour is relaxed; st holds the dicts, the heap, the
\* number of pushes made and whether a push raised TypeError
Relax(st, current, neighbor, weight) ==
    LET Record(tentative_g, f) ==
            [raised |-> PushResult(st.open_set, [f |-> f, node |-> neighbor]).raised,
             came_from |-> DictSet(st.came_from, neighbor, current),
             g_score |-> DictSet(st.g_score, neighbor, tentative_g),
             f_score |-> DictSet(st.f_score, neighbor, f),
             open_set |-> heappush(st.open_set, [f |-> f, node |-> neighbor]),
             pushed |-> st.pushed + 1]
        Try(tentative_g) ==
            IF neighbor \notin DOMAIN st.g_score \/ RatLess(tentative_g, st.g_score[neighbor])
            THEN Record(tentative_g,
                        RatAdd(tentative_g, _heuristic_cost(graph, heuristic, neighbor, goal)))
            ELSE st
    IN  IF st.raised THEN st ELSE Try(RatAdd(st.g_score[current], weight))

\* the for loop of lines 40-48 over get_neighbors(current)
RECURSIVE RelaxLoop(_, _, _)
RelaxLoop(nbrs, current, st) ==
    IF nbrs = <<>> THEN st
    ELSE RelaxLoop(Tail(nbrs), current, Relax(st, current, Head(nbrs).node, Head(nbrs).cost))

\* a faulty variant of line 50: the goal alone as the path
GoalOnlyResult == [path |-> <<goal>>, cost |-> Inf]

\* line 50: the result when the frontier is exhausted
ExhaustedResult == [path |-> <<>>, cost |-> Inf]

\* lines 27-32: find_path(s, g) up to the while loop
AStarStart(s, g) ==
    /\ a_pc = "idle"
    /\ nb_call = NoCall
    /\ start' = s
    /\ goal' = g
    /\ open_set' = <<[f |-> Num(0), node |-> s]>>
    /\ came_from' = (s :> 0)
    /\ g_score' = (s :> Num(0))
    /\ f_score' = (s :> _heuristic_cost(graph, heuristic, s, g))
    /\ a_pc' = "run"
    /\ UNCHANGED <<loaderVars, first_run, graphVars, probeVars, a_ret, a_last, dijkstraVars>>

\* lines 27-32 again: once both searches have returned, the caller asks for the
\* reverse route, find_path(goal, start), and the first costs are kept
AStarStartReverse ==
    /\ a_pc = "done"
    /\ d_pc = "done"
    /\ first_run = NoRun
    /\ first_run' = [a |-> a_ret.cost, d |-> d_ret.cost]
    /\ start' = goal
    /\ goal' = start
    /\ open_set' = <<[f |-> Num(0), node |-> goal]>>
    /\ came_from' = (goal :> 0)
    /\ g_score' = (goal :> Num(0))
    /\ f_score' = (goal :> _heuristic_cost(graph, heuristic, goal, start))
    /\ a_pc' = "run"
    /\ a_ret' = NoResult
    /\ a_last' = NoPop
    /\ distance' = <<>>
    /\ previous' = <<>>
    /\ unvisited' = {}
    /\ d_pc' = "idle"
    /\ d_ret' = NoResult
    /\ d_last' = <<>>
    /\ UNCHANGED <<loaderVars, graphVars, probeVars>>

\* lines 35-48: the pop of the least entry and the relaxation of the
\* neighbours of the node popped
Expansion ==
    RelaxLoop(get_neighbors(graph, Head(open_set).node, weight_attr, max_speed),
              Head(open_set).node,
              [raised |-> FALSE, came_from |-> came_from, g_score |-> g_score,
               f_score |-> f_score, open_set |-> heappop(open_set).heap, pushed |-> 0])

\* lines 35-38: the goal is popped
AStarReturnGoal ==
    /\ a_pc = "run"
    /\ open_set # <<>>
    /\ ~heappop(open_set).raised
    /\ Head(open_set).node = goal
    /\ a_ret' = [path |-> AStar_reconstruct_path(came_from, goal), cost |-> g_score[goal]]
    /\ a_last' = [kind |-> "goal", node |-> goal, f |-> Head(open_set).f, pushed |-> 0]
    /\ open_set' = heappop(open_set).heap
    /\ a_pc' = "done"
    /\ UNCHANGED <<loaderVars, first_run, graphVars, probeVars, start, goal, came_from, g_score, f_score, dijkstraVars>>

\* lines 35-48: another node is popped and its neighbours are relaxed
AStarExpand ==
    LET Assign(current, st) ==
            /\ ~st.raised
            /\ came_from' = st.came_from
            /\ g_score' = st.g_score
            /\ f_score' = st.f_score
            /\ open_set' = st.open_set
            /\ a_last' = [kind |-> "expand", node |-> current, f |-> Head(open_set).f,
                         pushed |-> st.pushed]
    IN  /\ a_pc = "run"
        /\ open_set # <<>>
        /\ ~heappop(open_set).raised
        /\ Head(open_set).node # goal
        /\ Assign(Head(open_set).node, Expansion)
        /\ UNCHANGED <<loaderVars, first_run, graphVars, probeVars, start, goal, a_pc, a_ret, dijkstraVars>>

\* lines 35 and 48: a comparison of two heap entries with equal f, one on an int
\* node id and one on a str node id, raises TypeError in heappop or in a
\* heappush, and find_path is left with the exception
AStarTypeError ==
    LET Raises(st) == st.raised
    IN  /\ a_pc = "run"
        /\ open_set # <<>>
        /\ \/ heappop(open_set).raised
           \/ Head(open_set).node # goal /\ Raises(Expansion)
        /\ a_last' = [kind |-> "TypeError", node |-> Head(open_set).node,
                     f |-> Head(open_set).f, pushed |-> 0]
        /\ a_pc' = "raised"
        /\ UNCHANGED <<loaderVars, first_run, graphVars, probeVars, start, goal, open_set,
                       came_from, g_score, f_score, a_ret, dijkstraVars>>

\* lines 34 and 50: the frontier is empty
AStarExhausted ==
    /\ a_pc = "run"
    /\ open_set = <<>>
    /\ a_ret' = ExhaustedResult
    /\ a_last' = [kind |-> "exhausted", node |-> 0, f |-> None, pushed |-> 0]
    /\ a_pc' = "done"
    /\ UNCHANGED <<loaderVars, first_run, graphVars, probeVars, start, goal, open_set, came_from, g_score,
                   f_score, dijkstraVars>>

-----------------------------------------------------------------------------
(* Dijkstra.find_path, run on the start and goal A* was given *)

\* a faulty variant of line 99, min(unvisited) with the key forgotten: the least
\* node id
SelectLeastId(unv, dist) == {c \in unv : \A o \in unv : c <= o}

\* line 99: min(unvisited, key=distance): any unvisited node of least distance
\* (which one of several is the set's iteration order)
SelectCurrent(unv, dist) == {c \in unv : \A o \in unv : RatLeq(dist[c], dist[o])}

\* a faulty variant of lines 109-112, without the test of line 110
DijkstraRelaxAlways(st, current, neighbor, weight) ==
    [distance |-> [st.distance EXCEPT ![neighbor] = RatAdd(st.distance[current], weight)],
     previous |-> [st.previous EXCEPT ![neighbor] = current]]

\* lines 109-112: one neighbour is relaxed
DijkstraRelaxOne(st, current, neighbor, weight) ==
    LET Try(new_distance) ==
            IF RatLess(new_distance, st.distance[neighbor])
            THEN [distance |-> [st.distance EXCEPT ![neighbor] = new_distance],
                  previous |-> [st.previous EXCEPT ![neighbor] = current]]
            ELSE st
    IN  Try(RatAdd(st.distance[current], weight))

\* the for loop of lines 108-112
RECURSIVE DijkstraRelaxLoop(_, _, _)
DijkstraRelaxLoop(nbrs, current, st) ==
    IF nbrs = <<>> THEN st
    ELSE DijkstraRelaxLoop(Tail(nbrs), current,
                           DijkstraRelaxOne(st, current, Head(nbrs).node, Head(nbrs).cost))

\* Dijkstra._reconstruct_path, lines 120-124; a predecessor of None is 0
RECURSIVE DijkstraBack(_, _)
DijkstraBack(prev, current) ==
    IF current = 0 THEN <<>>
    ELSE <<current>> \o DijkstraBack(prev, prev[current])

\* Dijkstra._reconstruct_path
Dijkstra_reconstruct_path(prev, g) == Reverse(DijkstraBack(prev, g))

\* line 113
DijkstraResult(prev, dist, g) ==
    [path |-> Dijkstra_reconstruct_path(prev, g), cost |-> dist[g]]

\* lines 92-96
DijkstraStart ==
    /\ a_pc \in {"done", "raised"}
    /\ d_pc = "idle"
    /\ distance' = [node \in get_all_nodes(graph) |-> IF node = start THEN Num(0) ELSE Inf]
    /\ previous' = [node \in get_all_nodes(graph) |-> 0]
    /\ unvisited' = get_all_nodes(graph)
    /\ d_pc' = "run"
    /\ UNCHANGED <<loaderVars, first_run, graphVars, probeVars, start, goal, astarVars, d_ret, d_last>>

\* lines 99-103: the goal is selected
DijkstraSelectGoal ==
    /\ d_pc = "run"
    /\ unvisited # {}
    /\ \E current \in SelectCurrent(unvisited, distance) :
        /\ current = goal
        /\ unvisited' = unvisited \ {current}
        /\ d_last' = Append(d_last, current)
    /\ d_ret' = DijkstraResult(previous, distance, goal)
    /\ d_pc' = "done"
    /\ UNCHANGED <<loaderVars, first_run, graphVars, probeVars, start, goal, astarVars, distance, previous>>

\* lines 99-106: the least remaining distance is infinite
DijkstraSelectUnreachable ==
    /\ d_pc = "run"
    /\ unvisited # {}
    /\ \E current \in SelectCurrent(unvisited, distance) :
        /\ current # goal
        /\ IsInf(distance[current])
        /\ unvisited' = unvisited \ {current}
        /\ d_last' = Append(d_last, current)
    /\ d_ret' = DijkstraResult(previous, distance, goal)
    /\ d_pc' = "done"
    /\ UNCHANGED <<loaderVars, first_run, graphVars, probeVars, start, goal, astarVars, distance, previous>>

\* lines 99-112: a node is selected and its outgoing edges are relaxed
DijkstraRelax ==
    LET Assign(st) ==
            /\ distance' = st.distance
            /\ previous' = st.previous
    IN  /\ d_pc = "run"
        /\ unvisited # {}
        /\ \E current \in SelectCurrent(unvisited, distance) :
            /\ current # goal
            /\ ~IsInf(distance[current])
            /\ unvisited' = unvisited \ {current}
            /\ d_last' = Append(d_last, current)
            /\ Assign(DijkstraRelaxLoop(
                          get_neighbors(graph, current, weight_attr, max_speed), current,
                          [distance |-> distance, previous |-> previous]))
        /\ UNCHANGED <<loaderVars, first_run, graphVars, probeVars, start, goal, astarVars, d_pc, d_ret>>

-----------------------------------------------------------------------------
(* The graphs of the searches: every graph on the three nodes whose edges  *)
(* (on the ordered pairs but 3 -> 1, or on every pair in both directions   *)
(* alike) carry a length of 0 .. MaxCost under length weighting, with every *)
(* custom heuristic of estimates 0 .. MaxH; and the line graph 1 -> 2 -> 3 *)
(* of lengths 100 and 200, with and without a malformed edge 1 -> 3, under *)
(* both weightings with the stock heuristics.                              *)

LengthEdge(u, v, len) == Edge(u, v, 0, EdgeData(NumV(len), AbsentV, AbsentV, AbsentV))

\* the ordered pairs that may carry an edge: all but 3 -> 1
Pairs == {p \in Nodes \X Nodes : p[1] # p[2] /\ p # <<3, 1>>}

DirectedGraphs ==
    {[nodes |-> [n \in Nodes |-> n],
      edges |-> {LengthEdge(p[1], p[2], len[p]) : p \in {q \in Pairs : len[q] >= 0}}] :
        len \in [Pairs -> -1..MaxCost]}

\* the unordered pairs, for the graphs whose every edge has a reverse edge of
\* the same length
Links == {p \in Nodes \X Nodes : p[1] < p[2]}

SymmetricGraphs ==
    {[nodes |-> [n \in Nodes |-> n],
      edges |-> UNION {{LengthEdge(p[1], p[2], len[p]), LengthEdge(p[2], p[1], len[p])} :
                          p \in {q \in Links : len[q] >= 0}}] :
        len \in [Links -> -1..MaxCost]}

SearchGraphs == DirectedGraphs \cup SymmetricGraphs

LineGraph ==
    [nodes |-> [n \in Nodes |-> n],
     edges |-> {LengthEdge(1, 2, 100), LengthEdge(2, 3, 200)}]

\* the line graph with one more edge 1 -> 3 whose every attribute is malformed
MalformedLineGraph ==
    [LineGraph EXCEPT !.edges = @ \cup {Edge(1, 3, 0, EdgeData(JunkV, JunkV, JunkV, JunkV))}]

CustomHeuristics == {CustomHeuristic(t) : t \in [Nodes -> 0..MaxH]}

\* the graphs with a detour: node 2 is reached from node 1 directly and by way
\* of node 3, and leads on to node 4; every edge has a length of 0 .. MaxCost
DetourNodes == {1, 2, 3, 4}

DetourPairs == {<<1, 2>>, <<1, 3>>, <<3, 2>>, <<2, 4>>}

DetourGraphs ==
    {[nodes |-> [n \in DetourNodes |-> n],
      edges |-> {LengthEdge(p[1], p[2], len[p]) : p \in DetourPairs}] :
        len \in [DetourPairs -> {0, MaxCost}]}

\* their heuristics estimate 0 or MaxH at each node
DetourHeuristics == {CustomHeuristic(t) : t \in [DetourNodes -> {0, MaxH}]}


-----------------------------------------------------------------------------
(* MapLoader.  Its graph is [ids, attr, edges]: the node ids in insertion  *)
(* order, the attributes [y, virtual] of each node, and the keyed edges in *)
(* the order graph.edges() iterates them.  An OSM node id is a positive    *)
(* integer; the string "virtual_<i>" is modelled as -(i + 1).  An edge key *)
(* is a tuple: <<k>> for the integer k, and f"{key}_{index}" appends index. *)

\* f"virtual_{index}"
VirtualId(index) == -(index + 1)

\* a - b on finite floats
RatSub(a, b) == RatAdd(a, [n |-> -b.n, d |-> b.d])

\* math.ceil of a finite float
Ceil(r) == -((-r.n) \div r.d)

\* the exception float(value) raises, "" when it returns
float_raises(value) ==
    CASE value.c # "scalar" -> "TypeError"
      [] value.t = "num" -> ""
      [] value.t = "str" /\ value.u = "" -> ""
      [] value.t = "inf" -> ""
      [] value.t = "none" -> "TypeError"
      [] OTHER -> "ValueError"

\* float(data.get(name, 0.0)) where it does not raise
float_or_zero(value) == IF IsNoneV(value) THEN Num(0) ELSE _coerce_float(value)

\* bool(x) of a float
FloatTruthy(x) == x.n # 0

\* MapLoader._edge_speed_m_s with _edge_speed_kph and _coerce_float, whose text
\* is that of the RoadGraph methods
MapLoader_edge_speed_m_s(data) == _edge_speed_m_s(data)

\* MapLoader._compute_max_speed, the text of RoadGraph._compute_max_speed
MapLoader_compute_max_speed(g) ==
    _compute_max_speed([edges |-> {g.edges[i] : i \in 1..Len(g.edges)}])

\* MapLoader._length_to_travel_time
_length_to_travel_time(length, data, maxms) ==
    LET Or(es) == IF ~IsNone(es) /\ es.n # 0 THEN es ELSE maxms
        Time(speed) == IF RatLeq(speed, Num(0)) THEN Num(0) ELSE RatDiv(length, speed)
    IN  Time(Or(MapLoader_edge_speed_m_s(data)))

EmptyGraph == [ids |-> <<>>, attr |-> <<>>, edges |-> <<>>]

\* nx.MultiDiGraph.add_node(n, **a): a new node is appended, an existing one
\* has its attributes updated
add_node(g, n, a) ==
    IF n \in DOMAIN g.attr THEN [g EXCEPT !.attr[n] = a]
    ELSE [g EXCEPT !.ids = Append(@, n), !.attr = DictSet(@, n, a)]

\* dict.update(new): an attribute new does not hold keeps its value
UpdateData(old, new) ==
    [name \in DOMAIN old |-> IF IsNoneV(new[name]) THEN old[name] ELSE new[name]]

\* the position of node n in the node order
NodePos(g, n) == CHOOSE i \in 1..Len(g.ids) : g.ids[i] = n

\* the greatest element of a set of naturals, 0 for the empty set
MaxOf(S) == IF S = {} THEN 0 ELSE CHOOSE m \in S : \A o \in S : o <= m

InsertAt(seq, i, e) == SubSeq(seq, 1, i) \o <<e>> \o SubSeq(seq, i + 1, Len(seq))

\* nx.MultiDiGraph.add_edge(u, v, key=key, **data): an existing (u, v, key) has
\* its attributes updated; a new edge is iterated after the edges of its bundle,
\* else after the edges of u, else where u stands in the node order
add_edge(g, u, v, key, data) ==
    LET Same == {i \in 1..Len(g.edges) :
                    g.edges[i].u = u /\ g.edges[i].v = v /\ g.edges[i].key = key}
        Bundled == {i \in 1..Len(g.edges) : g.edges[i].u = u /\ g.edges[i].v = v}
        Before == {i \in 1..Len(g.edges) : NodePos(g, g.edges[i].u) <= NodePos(g, u)}
        Update(i) == [g EXCEPT !.edges[i].data = UpdateData(@, data)]
        Insert(i) == [g EXCEPT !.edges = InsertAt(@, i, Edge(u, v, key, data))]
    IN  IF Same # {} THEN Update(CHOOSE i \in Same : TRUE)
        ELSE IF Bundled # {} THEN Insert(MaxOf(Bundled))
        ELSE Insert(MaxOf(Before))

\* a faulty variant of the test x <= 0: zero is let through
Negative(x) == RatLess(x, Num(0))

\* the test x <= 0 of densify_edges and of TravelTimeHeuristic.__init__
NonPositive(x) == RatLeq(x, Num(0))

\* densify_edges, line 141 for an edge without geometry: the point at the
\* fraction index / segment_count of the straight line between the end nodes
Interpolate(yu, yv, index, segment_count) ==
    RatAdd(yu, RatMul(RatSub(yv, yu), Rat(index, segment_count)))

\* densify_edges, lines 144-155: the synthetic nodes of one edge are added;
\* st holds the new graph, the count of virtual_ids and the node sequence
RECURSIVE AddVirtualNodes(_, _, _, _, _)
AddVirtualNodes(st, index, segment_count, yu, yv) ==
    IF index >= segment_count THEN st
    ELSE AddVirtualNodes(
             [g |-> add_node(st.g, VirtualId(st.next),
                             [y |-> Interpolate(yu, yv, index, segment_count),
                              virtual |-> TRUE]),
              next |-> st.next + 1,
              node_sequence |-> Append(st.node_sequence, VirtualId(st.next))],
             index + 1, segment_count, yu, yv)

\* densify_edges, lines 165-171: the attributes of each segment of an edge of
\* length total_length and travel time total_travel_time
SegmentData(data, total_length, segment_count, total_travel_time, maxms) ==
    [data EXCEPT
        !.length = FloatV(RatDiv(total_length, Num(segment_count))),
        !.travel_time =
            FloatV(IF FloatTruthy(total_travel_time)
                   THEN RatDiv(total_travel_time, Num(segment_count))
                   ELSE _length_to_travel_time(RatDiv(total_length, Num(segment_count)),
                                               data, maxms))]

\* densify_edges, lines 164-184: the segments are added along node_sequence
RECURSIVE AddSegments(_, _, _, _, _, _)
AddSegments(g, node_sequence, index, segment_count, key, segment_data) ==
    IF index > segment_count THEN g
    ELSE AddSegments(add_edge(g, node_sequence[index], node_sequence[index + 1],
                              Append(key, index), segment_data),
                     node_sequence, index + 1, segment_count, key, segment_data)

\* densify_edges, lines 158-162
TotalTravelTime(data, total_length, maxms) ==
    IF IsNoneV(Attr(data, "travel_time"))
    THEN _length_to_travel_time(total_length, data, maxms)
    ELSE _coerce_float(Attr(data, "travel_time"))

\* densify_edges, lines 137-184: the edge e is split into segment_count segments
SplitEdge(st, e, original_graph, total_length, segment_count, maxms) ==
    LET Segments(nodes) ==
            IF ~IsNoneV(Attr(e.data, "travel_time"))
               /\ float_raises(Attr(e.data, "travel_time")) # ""
            THEN [st EXCEPT !.raised = float_raises(Attr(e.data, "travel_time"))]
            ELSE [g |-> AddSegments(nodes.g, nodes.node_sequence \o <<e.v>>, 1,
                                    segment_count, e.key,
                                    SegmentData(e.data, total_length, segment_count,
                                                TotalTravelTime(e.data, total_length, maxms),
                                                maxms)),
                  next |-> nodes.next,
                  raised |-> ""]
    IN  Segments(AddVirtualNodes([g |-> st.g, next |-> st.next, node_sequence |-> <<e.u>>],
                                 1, segment_count,
                                 original_graph.attr[e.u].y, original_graph.attr[e.v].y))

\* densify_edges, lines 116-135 and on: one edge of the loop; st holds the new
\* graph, the count of virtual_ids and the exception raised, if any
DensifyEdge(st, e, original_graph, max_segment_length_m, maxms) ==
    LET Copy == [st EXCEPT !.g = add_edge(st.g, e.u, e.v, e.key, e.data)]
        Split(total_length, segment_count) ==
            IF segment_count <= 1 THEN Copy
            ELSE SplitEdge(st, e, original_graph, total_length, segment_count, maxms)
        Measure(total_length) ==
            IF RatLeq(total_length, max_segment_length_m) \/ total_length = Num(0)
            THEN Copy
            ELSE IF IsInf(total_length) THEN [st EXCEPT !.raised = "OverflowError"]
            ELSE Split(total_length, Ceil(RatDiv(total_length, max_segment_length_m)))
    IN  IF st.raised # "" THEN st
        ELSE IF ~IsNoneV(Attr(e.data, "length")) /\ float_raises(Attr(e.data, "length")) # ""
        THEN [st EXCEPT !.raised = float_raises(Attr(e.data, "length"))]
        ELSE Measure(float_or_zero(Attr(e.data, "length")))

\* densify_edges, lines 115-184: the loop over the edges of the original graph
RECURSIVE DensifyLoop(_, _, _, _, _)
DensifyLoop(st, edges, original_graph, max_segment_length_m, maxms) ==
    IF edges = <<>> THEN st
    ELSE DensifyLoop(DensifyEdge(st, Head(edges), original_graph, max_segment_length_m, maxms),
                     Tail(edges), original_graph, max_segment_length_m, maxms)

\* densify_edges, lines 106-184: the densified graph, or the exception raised
DensifiedGraph(original_graph, max_segment_length_m, maxms) ==
    DensifyLoop([g |-> [original_graph EXCEPT !.edges = <<>>], next |-> 0, raised |-> ""],
                original_graph.edges, original_graph, max_segment_length_m, maxms)

\* graph.get_edge_data(src, dst) or {}: the attribute dicts of the bundle, in
\* the order of its keys
EdgeBundle(g, src, dst) ==
    LET At(idx) == [i \in 1..Len(idx) |-> g.edges[idx[i]].data]
    IN  At(SortedSeq({i \in 1..Len(g.edges) : g.edges[i].u = src /\ g.edges[i].v = dst}))

\* MapLoader._select_best_edge, lines 343-348: the cost an edge is selected by
SelectionCost(data) ==
    LET OrInf(length) == IF IsNone(length) THEN Inf ELSE length
        OrLength(travel_time) ==
            IF IsNone(travel_time) THEN OrInf(_coerce_float(Attr(data, "length")))
            ELSE travel_time
    IN  OrLength(_coerce_float(Attr(data, "travel_time")))

\* MapLoader._select_best_edge, lines 342-352: the loop; best is the position
\* of the best edge so far (0 for None) and its cost
RECURSIVE SelectBestLoop(_, _, _)
SelectBestLoop(edge_bundle, index, best) ==
    IF index > Len(edge_bundle) THEN best
    ELSE SelectBestLoop(edge_bundle, index + 1,
                        IF RatLess(SelectionCost(edge_bundle[index]), best.cost)
                        THEN [key |-> index, cost |-> SelectionCost(edge_bundle[index])]
                        ELSE best)

\* MapLoader._select_best_edge: the position of the selected edge in the
\* bundle, 0 for None
_select_best_edge(edge_bundle) ==
    LET Result(best) == IF best.key = 0 \/ IsInf(best.cost) THEN 0 ELSE best.key
    IN  IF edge_bundle = <<>> THEN 0
        ELSE Result(SelectBestLoop(edge_bundle, 1, [key |-> 0, cost |-> Inf]))

\* calculate_path_metrics, lines 261-270: one selected edge is added to acc
AddEdgeMetrics(acc, edge_data, maxms) ==
    LET Sum(length, travel_time) ==
            [acc EXCEPT !.distance_m = RatAdd(@, length),
                        !.travel_time_s = RatAdd(@, travel_time),
                        !.edge_count = @ + 1]
        Timed(length) ==
            IF IsNoneV(Attr(edge_data, "travel_time"))
            THEN Sum(length, _length_to_travel_time(length, edge_data, maxms))
            ELSE IF float_raises(Attr(edge_data, "travel_time")) # ""
            THEN [acc EXCEPT !.raised = float_raises(Attr(edge_data, "travel_time"))]
            ELSE Sum(length, _coerce_float(Attr(edge_data, "travel_time")))
    IN  IF ~IsNoneV(Attr(edge_data, "length")) /\ float_raises(Attr(edge_data, "length")) # ""
        THEN [acc EXCEPT !.raised = float_raises(Attr(edge_data, "length"))]
        ELSE Timed(float_or_zero(Attr(edge_data, "length")))

\* calculate_path_metrics with _iter_edge_attributes: the loop over the
\* consecutive pairs of path; a pair without a selected edge is passed over
RECURSIVE MetricsLoop(_, _, _, _)
MetricsLoop(g, path, acc, maxms) ==
    LET Step(edge_bundle, best_edge) ==
            IF best_edge = 0 THEN acc
            ELSE AddEdgeMetrics(acc, edge_bundle[best_edge], maxms)
        Pair(edge_bundle) == Step(edge_bundle, _select_best_edge(edge_bundle))
    IN  IF Len(path) < 2 \/ acc.raised # "" THEN acc
        ELSE MetricsLoop(g, Tail(path), Pair(EdgeBundle(g, path[1], path[2])), maxms)

\* MapLoader.calculate_path_metrics on a loaded graph
calculate_path_metrics(g, path, maxms) ==
    MetricsLoop(g, path,
                [raised |-> "", distance_m |-> Num(0), travel_time_s |-> Num(0),
                 edge_count |-> 0],
                maxms)

\* MapLoader._ensure_graph_loaded: the exception it raises, "" when it returns
_ensure_graph_loaded(graph_ref) == IF graph_ref = 0 THEN "RuntimeError" ELSE ""

\* the record of a call that raised
Raised(op, arg, exception) ==
    [op |-> op, arg |-> arg, raised |-> exception, ret |-> <<>>,
     pre_graph |-> ld_graph, pre_heap |-> ld_heap]

\* the record of a call that returned
Returned(op, arg, ret) ==
    [op |-> op, arg |-> arg, raised |-> "", ret |-> ret,
     pre_graph |-> ld_graph, pre_heap |-> ld_heap]

-----------------------------------------------------------------------------
(* The loader specification: one MapLoader, from construction on.  The graph
   the OSMnx calls of load_map return is an input of the program; a call of a
   method is recorded in ld_call with the loader's graph and the graph objects
   as they were when the call was made. *)

\* the greatest number of graph objects densify_edges is called on
MaxDensify == 2

\* no TravelTimeHeuristic instance, no RoadGraph
NoHeuristic == [kind |-> "none", speed |-> None, table |-> <<>>]
NoGraph == [nodes |-> {}, edges |-> {}]

\* the node attributes of a node of the map at latitude y
NodeData(y) == [y |-> Num(y), virtual |-> FALSE]

LoaderLengths == {AbsentV, NumV(0), NumV(100), NumV(250), JunkV}
LoaderTravelTimes == {AbsentV, NumV(0), NumV(9), JunkV, InfStrV}
LoaderSpeeds == {AbsentV, NumV(36), NumV(-30)}

\* the attributes of the edge 1 -> 2 with key 0
LoaderData ==
    {EdgeData(l, t, s, AbsentV) :
        l \in LoaderLengths, t \in LoaderTravelTimes, s \in LoaderSpeeds}

\* the edges beside the edge 1 -> 2 with key 0: none, a parallel edge with
\* key 1, an edge 2 -> 3, or an edge 1 -> 3 added after or before it
LoaderOthers ==
    {[before |-> <<>>, after |-> <<>>],
     [before |-> <<>>,
      after |-> <<Edge(1, 2, <<1>>, EdgeData(NumV(100), AbsentV, NumV(72), AbsentV))>>],
     [before |-> <<>>,
      after |-> <<Edge(1, 2, <<1>>, EdgeData(NumV(100), NumV(5), NumV(72), AbsentV))>>],
     [before |-> <<>>,
      after |-> <<Edge(2, 3, <<0>>, EdgeData(NumV(250), NumV(10), NumV(36), AbsentV))>>],
     [before |-> <<>>,
      after |-> <<Edge(1, 3, <<0>>, EdgeData(NumV(100), NumV(10), NumV(36), AbsentV))>>],
     [before |-> <<Edge(1, 3, <<0>>, EdgeData(NumV(100), NumV(10), NumV(36), AbsentV))>>,
      after |-> <<>>]}

\* the graphs OSMnx hands to load_map: nodes 1, 2, 3 at latitudes 0, 1, 2
LoaderGraphs ==
    {[ids |-> <<1, 2, 3>>,
      attr |-> <<NodeData(0), NodeData(1), NodeData(2)>>,
      edges |-> others.before \o <<Edge(1, 2, <<0>>, d)>> \o others.after] :
        d \in LoaderData, others \in LoaderOthers}

Thresholds == {Num(-100), Num(0), Num(50), Num(90), Num(100)}
HeuristicSpeeds == {Num(-1), Num(0), Num(10)}
LoaderPaths == {<<>>, <<1, 2>>, <<1, 2, 3>>, <<2, 1>>}
LoaderNodeIds == {1, 4}

LoaderInit ==
    /\ graph = NoGraph
    /\ weight_attr = "travel_time"
    /\ max_speed = None
    /\ heuristic = NoHeuristic
    /\ nb_call = NoCall
    /\ ew_call = NoWeight
    /\ SearchIdle
    /\ LoaderIdle

LoaderUnchanged ==
    UNCHANGED <<first_run, graph, weight_attr, max_speed, nb_call, ew_call,
                start, goal, astarVars, dijkstraVars>>

\* TravelTimeHeuristic(max_speed_m_s): the instance exists once __init__ returns
NewTravelTimeHeuristic(max_speed_m_s) ==
    /\ heuristic = NoHeuristic
    /\ IF NonPositive(max_speed_m_s)
       THEN /\ ld_call' = Raised("TravelTimeHeuristic", max_speed_m_s, "ValueError")
            /\ UNCHANGED heuristic
       ELSE /\ ld_call' = Returned("TravelTimeHeuristic", max_speed_m_s, <<>>)
            /\ heuristic' = TravelTimeHeuristic(max_speed_m_s)
    /\ UNCHANGED <<ld_heap, ld_graph, ld_max_speed>>
    /\ LoaderUnchanged

\* a faulty variant of densify_edges: the edges are rebuilt in the graph object
\* the loader holds
InPlace(heap_now, graph_ref, g) ==
    [raised |-> "", heap |-> [heap_now EXCEPT ![graph_ref] = g], graph |-> graph_ref]

\* densify_edges, lines 107 and 186: the densified graph g is a new
\* nx.MultiDiGraph object, and the loader's graph from then on
NewObject(heap_now, graph_ref, g) ==
    [raised |-> "", heap |-> Append(heap_now, g), graph |-> Len(heap_now) + 1]

\* MapLoader.densify_edges(max_segment_length_m) on the loader whose graph is
\* object graph_ref of heap: the exception raised, the graph objects and the
\* loader's graph afterwards
densify_edges(heap_now, graph_ref, max_segment_length_m, maxms) ==
    LET Built(d) ==
            IF d.raised # ""
            THEN [raised |-> d.raised, heap |-> heap_now, graph |-> graph_ref]
            ELSE NewObject(heap_now, graph_ref, d.g)
    IN  IF NonPositive(max_segment_length_m)
        THEN [raised |-> "ValueError", heap |-> heap_now, graph |-> graph_ref]
        ELSE IF _ensure_graph_loaded(graph_ref) # ""
        THEN [raised |-> _ensure_graph_loaded(graph_ref), heap |-> heap_now,
              graph |-> graph_ref]
        ELSE Built(DensifiedGraph(heap_now[graph_ref], max_segment_length_m, maxms))

\* a call of MapLoader.densify_edges(max_segment_length_m)
DensifyEdgesCall(max_segment_length_m) ==
    LET Done(r) ==
            /\ ld_heap' = r.heap
            /\ ld_graph' = r.graph
            /\ ld_call' = IF r.raised # ""
                          THEN Raised("densify_edges", max_segment_length_m, r.raised)
                          ELSE Returned("densify_edges", max_segment_length_m, <<r.graph>>)
    IN  /\ Len(ld_heap) <= MaxDensify
        /\ Done(densify_edges(ld_heap, ld_graph, max_segment_length_m, ld_max_speed))
        /\ UNCHANGED <<ld_max_speed, heuristic>>
        /\ LoaderUnchanged

\* MapLoader.load_map: g is the graph OSMnx returns with speeds and travel
\* times added; densify_max_length_m is None or a threshold
LoadMap(g, densify_max_length_m) ==
    LET Densified(r) ==
            /\ ld_heap' = r.heap
            /\ ld_graph' = r.graph
            /\ ld_max_speed' = MapLoader_compute_max_speed(r.heap[r.graph])
            /\ ld_call' = IF r.raised # ""
                          THEN Raised("load_map", densify_max_length_m, "RuntimeError")
                          ELSE Returned("load_map", densify_max_length_m, <<r.graph>>)
    IN  /\ ld_heap = <<>>
        /\ IF IsNone(densify_max_length_m)
           THEN /\ ld_heap' = <<g>>
                /\ ld_graph' = 1
                /\ ld_max_speed' = MapLoader_compute_max_speed(g)
                /\ ld_call' = Returned("load_map", densify_max_length_m, <<1>>)
           ELSE Densified(densify_edges(<<g>>, 1, densify_max_length_m,
                                        MapLoader_compute_max_speed(g)))
        /\ UNCHANGED heuristic
        /\ LoaderUnchanged

\* a call of a method that leaves the loader as it is
LoaderQuery(call) ==
    /\ ld_call' = call
    /\ UNCHANGED <<ld_heap, ld_graph, ld_max_speed, heuristic>>
    /\ LoaderUnchanged

\* a call of MapLoader.get_nearest_node(point); the node OSMnx names is any
\* node of the graph
GetNearestNodeCall ==
    IF _ensure_graph_loaded(ld_graph) # ""
    THEN LoaderQuery(Raised("get_nearest_node", None, _ensure_graph_loaded(ld_graph)))
    ELSE \E i \in 1..Len(ld_heap[ld_graph].ids) :
             LoaderQuery(Returned("get_nearest_node", None, <<ld_heap[ld_graph].ids[i]>>))

\* MapLoader.get_node_coordinates(node_id) on a loaded graph
MapLoader_get_node_coordinates(g, node_id) ==
    IF node_id \in DOMAIN g.attr
    THEN [raised |-> "", ret |-> <<g.attr[node_id].y>>]
    ELSE [raised |-> "KeyError", ret |-> <<>>]

\* a call of MapLoader.get_node_coordinates(node_id)
GetNodeCoordinatesCall(node_id) ==
    LET Done(r) == IF r.raised # ""
                   THEN Raised("get_node_coordinates", node_id, r.raised)
                   ELSE Returned("get_node_coordinates", node_id, r.ret)
    IN  IF _ensure_graph_loaded(ld_graph) # ""
        THEN LoaderQuery(Raised("get_node_coordinates", node_id,
                                _ensure_graph_loaded(ld_graph)))
        ELSE LoaderQuery(Done(MapLoader_get_node_coordinates(ld_heap[ld_graph], node_id)))

\* MapLoader.path_to_coordinates(path) on a loaded graph, the nodes of path
\* being nodes of the graph
path_to_coordinates(g, path) == [i \in 1..Len(path) |-> g.attr[path[i]].y]

\* a call of MapLoader.path_to_coordinates(path)
PathToCoordinatesCall(path) ==
    IF _ensure_graph_loaded(ld_graph) # ""
    THEN LoaderQuery(Raised("path_to_coordinates", path, _ensure_graph_loaded(ld_graph)))
    ELSE LoaderQuery(Returned("path_to_coordinates", path,
                              path_to_coordinates(ld_heap[ld_graph], path)))

\* a call of MapLoader.calculate_path_metrics(path)
CalculatePathMetricsCall(path) ==
    LET Done(m) == IF m.raised # ""
                   THEN Raised("calculate_path_metrics", path, m.raised)
                   ELSE Returned("calculate_path_metrics", path,
                                 <<[distance_m |-> m.distance_m,
                                    travel_time_s |-> m.travel_time_s,
                                    edge_count |-> m.edge_count]>>)
    IN  IF _ensure_graph_loaded(ld_graph) # ""
        THEN LoaderQuery(Raised("calculate_path_metrics", path,
                                _ensure_graph_loaded(ld_graph)))
        ELSE LoaderQuery(Done(calculate_path_metrics(ld_heap[ld_graph], path,
                                                     ld_max_speed)))

\* MapLoader.get_graph_info: the dict, as the set of its items
get_graph_info(heap_now, graph_ref) ==
    IF graph_ref = 0 THEN {}
    ELSE {<<"num_nodes", Len(heap_now[graph_ref].ids)>>,
          <<"num_edges", Len(heap_now[graph_ref].edges)>>}

\* a call of MapLoader.get_graph_info()
GetGraphInfoCall ==
    /\ ld_call' = Returned("get_graph_info", None, <<get_graph_info(ld_heap, ld_graph)>>)
    /\ UNCHANGED <<ld_heap, ld_graph, ld_max_speed, heuristic>>
    /\ LoaderUnchanged

LoaderNext ==
    \/ \E g \in LoaderGraphs, t \in {None, Num(100)} : LoadMap(g, t)
    \/ \E t \in Thresholds : DensifyEdgesCall(t)
    \/ \E speed \in HeuristicSpeeds : NewTravelTimeHeuristic(speed)
    \/ GetNearestNodeCall
    \/ \E node_id \in LoaderNodeIds : GetNodeCoordinatesCall(node_id)
    \/ \E path \in LoaderPaths : PathToCoordinatesCall(path)
    \/ \E path \in LoaderPaths : CalculatePathMetricsCall(path)
    \/ GetGraphInfoCall

LoaderSpec == LoaderInit /\ [][LoaderNext]_vars

-----------------------------------------------------------------------------
(* The search specification: RoadGraph over a graph of one of the families,
   or over a graph densify_edges has produced, and the two searches on it. *)

\* the successors of node n in the order their first edges were added
RECURSIVE SuccOrder(_, _)
SuccOrder(edges, n) ==
    LET Rest == SuccOrder(SubSeq(edges, 1, Len(edges) - 1), n)
        Last == edges[Len(edges)]
    IN  IF edges = <<>> THEN <<>>
        ELSE IF Last.u = n /\ \A i \in 1..Len(Rest) : Rest[i] # Last.v
        THEN Append(Rest, Last.v)
        ELSE Rest

\* the place of edge i in its bundle, from 0: the order of the bundle's keys
KeyRank(edges, i) ==
    Cardinality({j \in 1..(i - 1) : edges[j].u = edges[i].u /\ edges[j].v = edges[i].v})

\* RoadGraph.__init__ on the graph a loader holds: the nodes with their
\* latitudes, the edges, and the order of succ
RoadGraphOf(lg) ==
    [nodes |-> [n \in DOMAIN lg.attr |-> lg.attr[n].y],
     edges |-> {Edge(lg.edges[i].u, lg.edges[i].v, KeyRank(lg.edges, i), lg.edges[i].data) :
                   i \in 1..Len(lg.edges)},
     succ |-> [n \in DOMAIN lg.attr |-> SuccOrder(lg.edges, n)]]

\* an edge of the map with a length alone
MapEdge(u, v, len) == Edge(u, v, <<0>>, EdgeData(NumV(len), AbsentV, AbsentV, AbsentV))

\* the maps that are densified for the searches: an edge 1 -> 2 of 200 m or
\* 250 m, alone or with an edge 1 -> 3 of 100 m added after or before it
DensifyInputs ==
    {[ids |-> <<1, 2, 3>>,
      attr |-> <<NodeData(0), NodeData(1), NodeData(2)>>,
      edges |-> es] :
        es \in UNION {{<<MapEdge(1, 2, len)>>,
                       <<MapEdge(1, 2, len), MapEdge(1, 3, 100)>>,
                       <<MapEdge(1, 3, 100), MapEdge(1, 2, len)>>} : len \in {200, 250}}}

\* the threshold the maps are densified with
SearchThreshold == Num(100)

\* RoadGraph over the graph a loader holds after densify_edges
DensifiedSearchGraphs ==
    {RoadGraphOf(DensifiedGraph(lg, SearchThreshold, MapLoader_compute_max_speed(lg)).g) :
        lg \in DensifyInputs}

SearchInit ==
    /\ \/ /\ graph \in SearchGraphs
          /\ weight_attr = "length"
          /\ heuristic \in CustomHeuristics
       \/ /\ graph \in {LineGraph, MalformedLineGraph}
          /\ weight_attr \in {"length", "travel_time"}
          /\ heuristic \in {ZeroHeuristic,
                            default_heuristic(weight_attr, _compute_max_speed(graph))}
       \/ /\ graph \in DensifiedSearchGraphs
          /\ weight_attr = "length"
          /\ heuristic = ZeroHeuristic
       \/ /\ graph \in DetourGraphs
          /\ weight_attr = "length"
          /\ heuristic \in DetourHeuristics
    /\ max_speed = _compute_max_speed(graph)
    /\ nb_call = NoCall
    /\ ew_call = NoWeight
    /\ SearchIdle
    /\ LoaderIdle

SearchNext ==
    \/ \E s, g \in get_all_nodes(graph) : AStarStart(s, g)
    \/ AStarStartReverse
    \/ AStarReturnGoal
    \/ AStarExpand
    \/ AStarTypeError
    \/ AStarExhausted
    \/ DijkstraStart
    \/ DijkstraSelectGoal
    \/ DijkstraSelectUnreachable
    \/ DijkstraRelax

SearchSpec == SearchInit /\ [][SearchNext]_vars

-----------------------------------------------------------------------------
(* Properties of the searches *)

\* w(u, v): the cost of the step u -> v, +inf when it cannot be taken
W(u, v) == get_edge_weight(graph, u, v, weight_attr, max_speed)

\* the least element of a non-empty set of floats
MinRat(S) == CHOOSE m \in S : \A o \in S : RatLeq(m, o)

\* the least cost of a walk from u to v of at most k steps
RECURSIVE ShortestDist(_, _, _)
ShortestDist(u, v, k) ==
    IF k = 0 THEN (IF u = v THEN Num(0) ELSE Inf)
    ELSE MinRat({ShortestDist(u, v, k - 1)}
                \cup {RatAdd(ShortestDist(u, w, k - 1), W(w, v)) : w \in get_all_nodes(graph)})

\* the least cost of a path from u to v; with non-negative costs a cheapest
\* path repeats no node
TrueCost(u, v) == ShortestDist(u, v, Cardinality(get_all_nodes(graph)) - 1)

NonNegativeCosts == \A u, v \in get_all_nodes(graph) : RatLeq(Num(0), W(u, v))

\* the heuristic never overestimates the cost left to the goal g
AdmissibleTo(g) ==
    \A n \in get_all_nodes(graph) :
        RatLeq(_heuristic_cost(graph, heuristic, n, g), TrueCost(n, g))

Admissible == AdmissibleTo(goal)

Reachable == ~IsInf(TrueCost(start, goal))

\* path leads from start to goal along steps that can be taken
IsPath(path) ==
    /\ Len(path) >= 1
    /\ path[1] = start
    /\ path[Len(path)] = goal
    /\ \A i \in 1..(Len(path) - 1) : ~IsInf(W(path[i], path[i + 1]))

RECURSIVE PathCost(_)
PathCost(path) ==
    IF Len(path) <= 1 THEN Num(0)
    ELSE RatAdd(W(path[1], path[2]), PathCost(Tail(path)))

\* C1: on a graph with non-negative edge costs, with an admissible heuristic
\* and a goal reachable from start, AStar.find_path and Dijkstra.find_path
\* return the same total cost.
C1_SameCost ==
    (a_pc = "done" /\ d_pc = "done")
        => \/ a_ret.cost = d_ret.cost
           \/ ~(NonNegativeCosts /\ Admissible /\ Reachable)

\* both searches have returned for a reachable goal two steps away, under an
\* admissible heuristic that is not zero at start
C1_Witness ==
    /\ a_pc = "done"
    /\ d_pc = "done"
    /\ NonNegativeCosts /\ Admissible /\ Reachable
    /\ heuristic.kind = "custom"
    /\ _heuristic_cost(graph, heuristic, start, goal) = Num(1)
    /\ Len(a_ret.path) = 3
    /\ a_ret.cost = d_ret.cost

\* C2: on a graph with non-negative edge costs, with an admissible heuristic
\* and a reachable goal, AStar.find_path returns a node sequence from start to
\* goal whose cost is the minimum over all start-to-goal paths (stated at the
\* return of find_path, before Dijkstra is started); on the line
\* graph 1 -> 2 -> 3 of lengths 100 and 200 under length weighting
\* find_path(1, 3) is ([1, 2, 3], 300).
C2_MinimumCostPath ==
    (a_pc = "done" /\ d_pc = "idle")
        => \/ /\ IsPath(a_ret.path)
              /\ PathCost(a_ret.path) = a_ret.cost
              /\ a_ret.cost = TrueCost(start, goal)
              /\ (graph = LineGraph /\ weight_attr = "length" /\ start = 1 /\ goal = 3)
                     => a_ret = [path |-> <<1, 2, 3>>, cost |-> Num(300)]
           \/ ~(NonNegativeCosts /\ Admissible /\ Reachable)

\* A* has returned the two-step route that is cheaper than the direct edge
C2_Witness ==
    /\ a_pc = "done"
    /\ NonNegativeCosts /\ Admissible /\ Reachable
    /\ ~IsInf(W(start, goal))
    /\ RatLess(a_ret.cost, W(start, goal))
    /\ Len(a_ret.path) = 3
    /\ a_ret.cost = TrueCost(start, goal)

Symmetric == \A u, v \in get_all_nodes(graph) : W(u, v) = W(v, u)

\* C12: on a graph where every edge has a reverse edge of equal cost, the
\* cost returned for (goal, start) equals the cost returned for (start, goal):
\* by Dijkstra always, by A* when the heuristic is admissible towards both.
C12_CostSymmetry ==
    (first_run # NoRun /\ a_pc = "done" /\ d_pc = "done")
        => \/ /\ d_ret.cost = first_run.d
              /\ a_ret.cost = first_run.a \/ ~(AdmissibleTo(goal) /\ AdmissibleTo(start))
           \/ ~Symmetric

\* both searches have answered both queries on a symmetric graph in which the
\* route over the third node is cheaper than the direct edge
C12_Witness ==
    /\ first_run # NoRun
    /\ a_pc = "done"
    /\ d_pc = "done"
    /\ Symmetric
    /\ AdmissibleTo(goal) /\ AdmissibleTo(start)
    /\ ~IsInf(W(start, goal))
    /\ RatLess(a_ret.cost, W(start, goal))
    /\ Len(a_ret.path) = 3
    /\ a_ret.cost = first_run.a
    /\ d_ret.cost = first_run.d

\* C4: when goal is not reachable from start, Dijkstra.find_path returns
\* exactly (empty path, +infinity).
C4_UnreachableDijkstra ==
    d_pc = "done" => (d_ret = [path |-> <<>>, cost |-> Inf] \/ Reachable)

\* the graph holds a synthetic node: densify_edges has produced it
Densify_Made == \E n \in get_all_nodes(graph) : IsVirtual(n)

\* C21: on a graph produced by densify_edges, with int and str node ids,
\* AStar.find_path never ends in an exception, also when two frontier entries
\* have equal f and the comparison falls to the node ids; it ends with a
\* (path, cost) result as Dijkstra.find_path does.
C21_MixedIdsSearch == Densify_Made => a_pc # "raised"

\* the entry about to be popped is stale: it was pushed for a g of its node
\* that has been improved since, so f_score of the node is below its f
StaleHead ==
    /\ a_pc = "run"
    /\ open_set # <<>>
    /\ RatLess(f_score[Head(open_set).node], Head(open_set).f)

\* C22: in AStar.find_path the pop of a stale entry (one pushed for a g of its
\* node that has been improved since) records no new g value, no new
\* predecessor and pushes no new frontier entry: only the pop of a node's best
\* entry has an effect.
C22_StalePopInert ==
    [][StaleHead => /\ g_score' = g_score
                    /\ came_from' = came_from
                    /\ f_score' = f_score
                    /\ a_last'.pushed = 0
                    /\ open_set' \in {open_set, heappop(open_set).heap}]_vars

\* a stale entry has been popped and its node's edges relaxed again
C22_Witness ==
    /\ a_last.kind = "expand"
    /\ RatLess(f_score[a_last.node], a_last.f)

\* the weights of the edges: the cost of every step is one of them
StepCosts == {EdgeWeight(e.data, weight_attr, max_speed) : e \in graph.edges} \ {None, Inf}

\* the sums of up to k of the weights ws: with non-negative costs every g
\* value is the cost of a path that repeats no node, one of the sums of fewer
\* weights than there are nodes
RECURSIVE Sums(_, _)
Sums(ws, k) ==
    LET More(sums) == sums \cup {RatAdd(c, w) : c \in sums, w \in ws}
    IN  IF k = 0 THEN {Num(0)} ELSE More(Sums(ws, k - 1))

Candidates ==
    UNION {Sums(ws, Cardinality(get_all_nodes(graph)) - 1) : ws \in {StepCosts}}

\* the variant of the while loop, for the candidate g values cs: twice the
\* number of values g_score can still take, a node without a g counting one
\* more than all of cs, plus the length of the frontier.  A record of a
\* better g takes at least 2 from the first term and adds a frontier entry; a
\* pop takes a frontier entry.
VariantOver(cs) ==
    2 * Cardinality({nc \in (DOMAIN g_score) \X cs : RatLess(nc[2], g_score[nc[1]])})
    + 2 * (Cardinality(cs) + 1) * Cardinality(get_all_nodes(graph) \ DOMAIN g_score)
    + Len(open_set)

Variant == CHOOSE v \in {VariantOver(cs) : cs \in {Candidates}} : TRUE

Selected == d_last'[Len(d_last')]

\* C24: every iteration of the loop of Dijkstra.find_path selects one node that
\* was not selected before, of the minimum tentative distance among the
\* unvisited nodes; the loop stops exactly when that node is the goal or its
\* distance is infinite; and, the edge costs being non-negative, the iteration
\* leaves the distance of every node selected so far as it was.
C24_DijkstraSelection ==
    [][d_pc = "run" =>
          /\ d_last' = Append(d_last, Selected)
          /\ Selected \in unvisited
          /\ unvisited' = unvisited \ {Selected}
          /\ \A other \in unvisited : RatLeq(distance[Selected], distance[other])
          /\ (d_pc' = "done") <=> (Selected = goal \/ IsInf(distance[Selected]))
          /\ d_pc' \in {"run", "done"}
          /\ \A node \in get_all_nodes(graph) \ unvisited' :
                 distance'[node] = distance[node]]_vars

\* Dijkstra has relaxed an edge that leads back to a node selected earlier
C24_Witness ==
    /\ d_pc = "done"
    /\ \E i, j \in 1..(Len(d_last) - 1) :
           /\ i < j
           /\ ~IsInf(W(d_last[j], d_last[i]))
           /\ ~IsInf(distance[d_last[j]])

\* C25: for every heuristic, inadmissible ones included, on a graph with
\* non-negative costs: a non-empty path AStar.find_path returns begins at
\* start, ends at goal, joins every two consecutive nodes by an edge that can
\* be taken, and the cost returned with it is the sum of the costs of its
\* steps.
C25_ReturnedPathIsValid ==
    (a_pc = "done" /\ d_pc = "idle" /\ a_ret.path # <<>>)
        => /\ IsPath(a_ret.path)
           /\ PathCost(a_ret.path) = a_ret.cost

\* A* has returned, under a heuristic that overestimates, a path that costs
\* more than the cheapest one
C25_Witness ==
    /\ a_pc = "done"
    /\ Len(a_ret.path) >= 2
    /\ ~Admissible
    /\ RatLess(TrueCost(start, goal), a_ret.cost)

-----------------------------------------------------------------------------
(* Properties of the cost model *)

\* the positions at which ret lists the neighbour v
Listed(ret, v) == {i \in 1..Len(ret) : ret[i].node = v}

\* the costs the single edges of the bundle u -> v yield, each taken alone
PerEdgeCosts(u, v) ==
    {EdgeWeight(Bundle(graph, u, v)[i], weight_attr, max_speed) :
        i \in 1..Len(Bundle(graph, u, v))} \ {None}

\* neither the weight attribute nor the length of the edge parses
Malformed(data) ==
    /\ IsNone(_coerce_float(Attr(data, weight_attr)))
    /\ IsNone(_coerce_float(Attr(data, "length")))

BundleMalformed(u, v) ==
    /\ Bundle(graph, u, v) # <<>>
    /\ \A i \in 1..Len(Bundle(graph, u, v)) : Malformed(Bundle(graph, u, v)[i])

\* the graph without the bundle u -> v
Without(g, u, v) == [g EXCEPT !.edges = {e \in @ : ~(e.u = u /\ e.v = v)}]

\* an attribute of the edge parses to +inf
InfiniteData(data) ==
    \E name \in {"length", "travel_time"} : IsInf(_coerce_float(Attr(data, name)))

\* C5: every cost that get_neighbors hands to the search is non-negative.
C5_NonNegativeCosts ==
    nb_call # NoCall
        => \A i \in 1..Len(nb_call.ret) : RatLeq(Num(0), nb_call.ret[i].cost)

\* C6: for a node pair joined by parallel edges, the cost get_neighbors and
\* get_edge_weight report is the least of the costs of the edges that yield
\* one; edges that yield none do not affect it.
C6_ParallelMinimum ==
    /\ nb_call # NoCall
           => \A v \in get_all_nodes(graph) :
                  PerEdgeCosts(nb_call.node, v) # {}
                      => \E i \in Listed(nb_call.ret, v) :
                             nb_call.ret[i].cost = MinRat(PerEdgeCosts(nb_call.node, v))
    /\ (ew_call # NoWeight /\ PerEdgeCosts(ew_call.u, ew_call.v) # {})
           => ew_call.ret = MinRat(PerEdgeCosts(ew_call.u, ew_call.v))

\* both calls were made on a bundle of two edges of different costs, the
\* second the cheaper
C6_Witness ==
    /\ nb_call.node = 1
    /\ ew_call.u = 1 /\ ew_call.v = 2
    /\ Len(Bundle(graph, 1, 2)) = 2
    /\ Cardinality(PerEdgeCosts(1, 2)) = 2
    /\ EdgeWeight(Bundle(graph, 1, 2)[2], weight_attr, max_speed) = MinRat(PerEdgeCosts(1, 2))
    /\ ew_call.ret = MinRat(PerEdgeCosts(1, 2))
    /\ \E i \in Listed(nb_call.ret, 2) : nb_call.ret[i].cost = ew_call.ret

\* C7 as stated: get_edge_weight(u, v) equals the cost paired with v in
\* get_neighbors(u) when v is listed, and is +infinity exactly when v is not
\* listed.
C7_InfinityIffUnlisted ==
    ew_call # NoWeight
        => /\ \A i \in Listed(nb_call.ret, ew_call.v) : ew_call.ret = nb_call.ret[i].cost
           /\ IsInf(ew_call.ret) <=> Listed(nb_call.ret, ew_call.v) = {}
           /\ ~IsNone(ew_call.ret)

\* C7: get_edge_weight(u, v) is a float, never None; it equals the cost paired
\* with v in get_neighbors(u) when v is listed and is +infinity when v is not
\* listed; it is +infinity for a listed v only when an attribute of an edge
\* u -> v parses to +infinity.
C7_EdgeWeightMatchesNeighbors ==
    ew_call # NoWeight
        => /\ \A i \in Listed(nb_call.ret, ew_call.v) : ew_call.ret = nb_call.ret[i].cost
           /\ Listed(nb_call.ret, ew_call.v) = {} => IsInf(ew_call.ret)
           /\ (IsInf(ew_call.ret) /\ Listed(nb_call.ret, ew_call.v) # {})
                  => \E i \in 1..Len(Bundle(graph, ew_call.u, ew_call.v)) :
                         InfiniteData(Bundle(graph, ew_call.u, ew_call.v)[i])
           /\ ~IsNone(ew_call.ret)

\* get_edge_weight was called for a listed neighbour whose cost is +infinity
C7_Witness ==
    /\ ew_call # NoWeight
    /\ Listed(nb_call.ret, ew_call.v) # {}
    /\ IsInf(ew_call.ret)
    /\ \A i \in Listed(nb_call.ret, ew_call.v) : ew_call.ret = nb_call.ret[i].cost

\* the case of C8: a parseable length, no usable travel_time, and a declared
\* speed that does not parse or is not positive
FallbackSpeedCase(data) ==
    /\ ~IsNone(_coerce_float(Attr(data, "length")))
    /\ IsNone(_coerce_float(Attr(data, "travel_time")))
    /\ \/ IsNone(_edge_speed_kph(data))
       \/ RatLeq(_edge_speed_kph(data), Num(0))

\* C8: under travel_time weighting, an edge with a parseable length, no usable
\* travel_time and a declared speed that is unparseable or non-positive costs
\* its length divided by the graph-wide fallback maximum speed.
C8_FallbackMaxSpeed ==
    (/\ nb_call # NoCall
     /\ nb_call.node = 1
     /\ weight_attr = "travel_time"
     /\ Len(Bundle(graph, 1, 2)) = 1
     /\ FallbackSpeedCase(Bundle(graph, 1, 2)[1]))
        => \E i \in Listed(nb_call.ret, 2) :
               nb_call.ret[i].cost =
                   RatDiv(_coerce_float(Attr(Bundle(graph, 1, 2)[1], "length")), max_speed)

\* C9: a bundle in which no edge has a parseable weight attribute or length is
\* omitted from get_neighbors, and the call returns what it returns on the
\* graph without that bundle: every other neighbour is listed with its cost.
C9_MalformedBundleOmitted ==
    nb_call # NoCall
        => \A v \in get_all_nodes(graph) :
               BundleMalformed(nb_call.node, v)
                   => /\ Listed(nb_call.ret, v) = {}
                      /\ nb_call.ret = get_neighbors(Without(graph, nb_call.node, v),
                                                     nb_call.node, weight_attr, max_speed)

\* get_neighbors(1) met a malformed bundle of two edges to node 2 and listed
\* node 3
C9_Witness ==
    /\ nb_call.node = 1
    /\ BundleMalformed(1, 2)
    /\ Len(Bundle(graph, 1, 2)) = 2
    /\ Listed(nb_call.ret, 2) = {}
    /\ Listed(nb_call.ret, 3) # {}

\* every edge has a parseable length no shorter than the great-circle distance
\* between its ends, and no edge yields a negative cost
SaneEdges ==
    \A e \in graph.edges :
        /\ ~IsNone(_coerce_float(Attr(e.data, "length")))
        /\ RatLeq(haversine_distance(get_node_coordinates(graph, e.u),
                                     get_node_coordinates(graph, e.v)),
                  _coerce_float(Attr(e.data, "length")))
        /\ \/ IsNone(EdgeWeight(e.data, weight_attr, max_speed))
           \/ RatLeq(Num(0), EdgeWeight(e.data, weight_attr, max_speed))

\* C10: for the heuristic default_heuristic() returns, every traversable edge
\* (u, v) of cost w(u, v) and every goal satisfy
\* h(u, goal) <= w(u, v) + h(v, goal).
C10_Consistency ==
    (nb_call # NoCall /\ SaneEdges)
        => \A i \in 1..Len(nb_call.ret), g \in get_all_nodes(graph) :
               RatLeq(_heuristic_cost(graph, heuristic, nb_call.node, g),
                      RatAdd(nb_call.ret[i].cost,
                             _heuristic_cost(graph, heuristic, nb_call.ret[i].node, g)))

-----------------------------------------------------------------------------
(* Properties of the loader *)

\* the last call was MapLoader.densify_edges
Densified == ld_call.op = "densify_edges"

\* C11: a non-positive configuration value is rejected: TravelTimeHeuristic
\* with max_speed_m_s <= 0 raises ValueError and no instance exists, and
\* densify_edges with max_segment_length_m <= 0 raises ValueError before it
\* looks at the graph (loaded or not) and leaves the loader's graph as it was.
C11_NonPositiveRejected ==
    /\ (ld_call.op = "TravelTimeHeuristic" /\ RatLeq(ld_call.arg, Num(0)))
           => (ld_call.raised = "ValueError" /\ heuristic = NoHeuristic)
    /\ (Densified /\ RatLeq(ld_call.arg, Num(0)))
           => /\ ld_call.raised = "ValueError"
              /\ ld_graph = ld_call.pre_graph
              /\ ld_heap = ld_call.pre_heap

\* densify_edges(0) was called on a loader without a graph and raised ValueError
C11_Witness ==
    /\ Densified
    /\ ld_call.arg = Num(0)
    /\ ld_call.pre_graph = 0
    /\ ld_call.raised = "ValueError"

\* the last call was densify_edges and it returned
DensifyReturned == Densified /\ ld_call.raised = ""

\* the graph densify_edges was called on, and the loader's graph now
InputGraph == ld_call.pre_heap[ld_call.pre_graph]
OutputGraph == ld_heap[ld_graph]

\* the edges of a graph, as a set
EdgeSet(g) == {g.edges[i] : i \in 1..Len(g.edges)}

\* the length of edge e is a number, L say, and L > t
LongerThan(e, t) ==
    /\ ~IsNoneV(Attr(e.data, "length"))
    /\ float_raises(Attr(e.data, "length")) = ""
    /\ RatLess(t, _coerce_float(Attr(e.data, "length")))

\* the least count k with L <= k * t, for L > t > 0
CountFor(L, t) == CHOOSE k \in 2..10 : RatLess(RatMul(Num(k - 1), t), L) /\ RatLeq(L, RatMul(Num(k), t))

\* g holds segments index .. k of edge e, each of length len, as a chain
\* from node n to the head of e
RECURSIVE ChainFrom(_, _, _, _, _, _)
ChainFrom(g, e, n, index, k, len) ==
    IF index > k THEN n = e.v
    ELSE \E s \in EdgeSet(g) :
            /\ s.u = n
            /\ s.key = Append(e.key, index)
            /\ Attr(s.data, "length") = FloatV(len)
            /\ ChainFrom(g, e, s.v, index + 1, k, len)

\* edge e of length L is k segments of length L / k in g, their sum L, none
\* over t
SplitInto(g, e, L, k, t) ==
    /\ ChainFrom(g, e, e.u, 1, k, RatDiv(L, Num(k)))
    /\ RatMul(Num(k), RatDiv(L, Num(k))) = L
    /\ RatLeq(RatDiv(L, Num(k)), t)

\* C13: when densify_edges(t) returns, every edge u -> v of the input graph
\* whose length L exceeds t is, in the loader's graph, a chain of exactly
\* ceil(L / t) consecutive segments from u to v, each of length L / ceil(L / t);
\* the lengths sum to L and none exceeds t.
C13_SegmentCount ==
    DensifyReturned =>
        \A e \in EdgeSet(InputGraph) :
            LongerThan(e, ld_call.arg) =>
                SplitInto(OutputGraph, e, _coerce_float(Attr(e.data, "length")),
                          CountFor(_coerce_float(Attr(e.data, "length")), ld_call.arg),
                          ld_call.arg)

\* C14: when densify_edges(t) returns, every edge of the input graph whose
\* length is at most t, zero or missing is an edge of the loader's graph with
\* the same endpoints, key and attributes, and no node is created for it: a
\* graph of such edges only comes out with the nodes and edges it went in with.
C14_ShortEdgesCopied ==
    DensifyReturned =>
        /\ \A e \in EdgeSet(InputGraph) :
              ~LongerThan(e, ld_call.arg) => e \in EdgeSet(OutputGraph)
        /\ (\A e \in EdgeSet(InputGraph) : ~LongerThan(e, ld_call.arg))
               => OutputGraph = InputGraph

\* no node of the input graph was made by an earlier densify_edges call
FirstDensify == \A n \in DOMAIN InputGraph.attr : ~InputGraph.attr[n].virtual

\* g holds segments index .. k of edge e, each with travel time time, as a
\* chain from node n to the head of e
RECURSIVE TimedChainFrom(_, _, _, _, _, _)
TimedChainFrom(g, e, n, index, k, time) ==
    IF index > k THEN n = e.v
    ELSE \E s \in EdgeSet(g) :
            /\ s.u = n
            /\ s.key = Append(e.key, index)
            /\ Attr(s.data, "travel_time") = FloatV(time)
            /\ TimedChainFrom(g, e, s.v, index + 1, k, time)

\* edge e carries a travel_time that is a number
ExplicitTravelTime(e) ==
    /\ ~IsNoneV(Attr(e.data, "travel_time"))
    /\ float_raises(Attr(e.data, "travel_time")) = ""

\* the segments of edge e, split into k, carry travel_time T / k each
ApportionedInto(g, e, T, k) == TimedChainFrom(g, e, e.u, 1, k, RatDiv(T, Num(k)))

\* C15: when densify_edges(t) returns on a graph not densified before, every
\* edge that carries an explicit travel_time T, zero included, and is split
\* into k segments has travel_time T / k on each segment.
C15_TravelTimeApportioned ==
    (DensifyReturned /\ FirstDensify) =>
        \A e \in EdgeSet(InputGraph) :
            (LongerThan(e, ld_call.arg) /\ ExplicitTravelTime(e)) =>
                ApportionedInto(OutputGraph, e, _coerce_float(Attr(e.data, "travel_time")),
                                CountFor(_coerce_float(Attr(e.data, "length")), ld_call.arg))

\* C16: when densify_edges returns, the loader's graph is a graph object that
\* did not exist before the call, and every graph object that did exist, the
\* input graph among them, is as it was.
C16_NewGraphObject ==
    DensifyReturned =>
        /\ ld_graph \notin 1..Len(ld_call.pre_heap)
        /\ \A i \in 1..Len(ld_call.pre_heap) : ld_heap[i] = ld_call.pre_heap[i]

\* densify_edges split an edge, and the input graph object still holds it
C16_Witness ==
    /\ DensifyReturned
    /\ OutputGraph # InputGraph
    /\ ld_heap[ld_call.pre_graph] = InputGraph
    /\ \E e \in EdgeSet(InputGraph) : e \notin EdgeSet(OutputGraph)

\* the methods of MapLoader that work on the loaded graph
Accessors ==
    {"get_nearest_node", "get_node_coordinates", "path_to_coordinates",
     "calculate_path_metrics", "get_graph_info", "densify_edges"}

\* the last call was of an accessor, with a positive threshold if it was of
\* densify_edges, on a loader that held no graph
AccessorWithoutGraph ==
    /\ ld_call.op \in Accessors
    /\ ld_call.pre_graph = 0
    /\ Densified => RatLess(Num(0), ld_call.arg)

\* C17: every accessor called before a graph is loaded fails with the
\* "Graph not loaded" RuntimeError; none returns a value.
C17_GraphNotLoaded == AccessorWithoutGraph => ld_call.raised = "RuntimeError"

\* the last call was calculate_path_metrics(path) on a loaded graph and it
\* returned
MetricsReturned(path) ==
    /\ ld_call.op = "calculate_path_metrics"
    /\ ld_call.raised = ""
    /\ ld_call.pre_graph # 0
    /\ ld_call.arg = path

\* the cost RoadGraph derives for the bundle u -> v of the loader's graph when
\* it weighs by travel time
RoadGraphCost(u, v) == _edge_cost(EdgeBundle(OutputGraph, u, v), "travel_time", ld_max_speed)

\* the metrics of a path over edge data alone
MetricsOf(data) ==
    AddEdgeMetrics([raised |-> "", distance_m |-> Num(0), travel_time_s |-> Num(0),
                    edge_count |-> 0],
                   data, ld_max_speed)

\* the metrics m are those of an edge of the bundle whose cost is cost
MetricsOfEdgeAt(m, edge_bundle, cost) ==
    \E i \in 1..Len(edge_bundle) :
        /\ EdgeWeight(edge_bundle[i], "travel_time", ld_max_speed) = cost
        /\ m.distance_m = MetricsOf(edge_bundle[i]).distance_m
        /\ m.travel_time_s = MetricsOf(edge_bundle[i]).travel_time_s
        /\ m.edge_count = 1

\* RoadGraph derives a finite travel time for every edge of the bundle
AllUsable(edge_bundle) ==
    /\ edge_bundle # <<>>
    /\ \A i \in 1..Len(edge_bundle) :
          /\ ~IsNone(EdgeWeight(edge_bundle[i], "travel_time", ld_max_speed))
          /\ ~IsInf(EdgeWeight(edge_bundle[i], "travel_time", ld_max_speed))

\* C18: for the path [1, 2] over a bundle of edges RoadGraph derives a finite
\* travel time for, calculate_path_metrics reports the metrics of a parallel
\* edge whose cost under RoadGraph's derivation (explicit travel_time if it
\* parses, else length over the effective speed) is the least of the bundle.
C18_SameSelection ==
    (MetricsReturned(<<1, 2>>) /\ AllUsable(EdgeBundle(OutputGraph, 1, 2)))
        => MetricsOfEdgeAt(ld_call.ret[1], EdgeBundle(OutputGraph, 1, 2), RoadGraphCost(1, 2))

\* the last call was calculate_path_metrics(path) on a loaded graph
MetricsCalled(path) ==
    /\ ld_call.op = "calculate_path_metrics"
    /\ ld_call.pre_graph # 0
    /\ ld_call.arg = path

\* the bundle is one edge whose length is a number and which RoadGraph derives
\* a finite travel time for
SingleEdge(edge_bundle) ==
    /\ Len(edge_bundle) = 1
    /\ Attr(edge_bundle[1], "length").t = "num"
    /\ AllUsable(edge_bundle)

\* C19: for the path [1, 2] over a single edge with a length,
\* calculate_path_metrics returns distance_m equal to that length and
\* edge_count equal to 1.
C19_SingleEdgeMetrics ==
    (MetricsCalled(<<1, 2>>) /\ SingleEdge(EdgeBundle(OutputGraph, 1, 2)))
        => /\ ld_call.raised = ""
           /\ ld_call.ret[1].distance_m
                  = _coerce_float(Attr(EdgeBundle(OutputGraph, 1, 2)[1], "length"))
           /\ ld_call.ret[1].edge_count = 1

\* C20: when densify_edges returns, every node of the input graph is a node of
\* the loader's graph with the attributes it had, so that no synthetic node
\* took the identifier of an existing node.
C20_FreshVirtualIds ==
    DensifyReturned =>
        \A n \in DOMAIN InputGraph.attr :
            /\ n \in DOMAIN OutputGraph.attr
            /\ OutputGraph.attr[n] = InputGraph.attr[n]

\* the least cost of a path from u to v in the road graph rg under length
\* weighting that passes through no node of visited, +inf if there is none
RECURSIVE LeastCost(_, _, _, _)
LeastCost(rg, u, v, visited) ==
    LET Steps == get_neighbors(rg, u, "length", _compute_max_speed(rg))
        Onward == {i \in 1..Len(Steps) : Steps[i].node \notin visited \cup {u}}
        Costs == {RatAdd(Steps[i].cost, LeastCost(rg, Steps[i].node, v, visited \cup {u})) :
                     i \in Onward}
    IN  IF u = v THEN Num(0)
        ELSE CHOOSE least \in {MinRat(costs) : costs \in {Costs \cup {Inf}}} : TRUE

\* between any two nodes of the graph before, the least cost is the same in
\* the road graphs before and after
SameLeastCosts(before, after) ==
    \A u, v \in get_all_nodes(before) :
        LeastCost(before, u, v, {}) = LeastCost(after, u, v, {})

\* C26: for any two nodes of the graph densify_edges is called on and any
\* positive threshold, the minimum path cost between them under length
\* weighting is the same on that graph and on the graph densify_edges
\* produces.
C26_LeastCostsPreserved ==
    DensifyReturned
        => \A before \in {RoadGraphOf(InputGraph)}, after \in {RoadGraphOf(OutputGraph)} :
               SameLeastCosts(before, after)

=============================================================================
